---- MODULE Spec2Model ----
(***************************************************************************)
(* Order composition and checkout of the Panda Express self-service POS.   *)
(*                                                                         *)
(*   root component (App.vue)     src/unnamed/part_001                     *)
(*   Plate.vue                    src/client/src/components/menu/Plate.vue *)
(*   ALaCarte.vue                 src/unnamed/part_000                     *)
(*   Appetizers.vue               src/README.md, lines 362-571             *)
(*                                                                         *)
(* Money is counted in cents.  Item names are tuples of words, so that the *)
(* substring tests of ALaCarte.vue (String.includes) can be computed.      *)
(* Every axios call is a record in a sequence of calls in flight; its      *)
(* callback is a separate action, so that other handlers run between the   *)
(* request and the response, as in the browser's event loop.               *)
(***************************************************************************)
EXTENDS Integers, Sequences, FiniteSets, Bags, TLC

\* ------------------------------------------------------------------ bounds
\* most lines the cart may hold before a menu component stops adding
MaxCart == 2
\* most addToCart requests of Appetizers.vue in flight at a time
MaxAppCalls == 1
\* most lines the cart may hold before Plate.vue stops adding
MaxPlateCart == 1
\* most addToCart requests of Plate.vue in flight at a time
MaxPlateCalls == 1
\* most selected entries, pending selectSize calls and cart lines the
\* A la carte flow holds at a time, taken together
MaxAla == 2
\* most lines the cart may hold in the order flow
MaxOrderCart == 3
\* most lines of a cart that completeOrder is run on
MaxOrderLines == 1
\* most completeOrder runs, counted by the requests in flight and the
\* transactions persisted
MaxOrders == 1
\* SpecResubmit: most completeOrder runs of the one order, counted like
\* MaxOrders
MaxSubmits == 2
\* SpecLines: most lines of the one order
MaxLineItems == 2
\* the values of Math.random() are taken as k / RandomSteps, 0 <= k and
\* k < RandomSteps
RandomSteps == 12

\* ------------------------------------------------- the catalog (external)
\* names served by GET menu/Appetizer
Appetizers == { <<"Egg", "Roll">>, <<"Rangoon">> }
\* names served by GET menu/Side
Sides == { <<"Chow", "Mein">> }
\* names served by GET menu/Entree
Entrees == { <<"Orange", "Chicken">>, <<"Teriyaki", "Chicken">>,
             <<"Walnut", "Shrimp">> }
\* the lists GET ispremium/ may serve
PremiumChoices == { << <<"Walnut", "Shrimp">> >>,
                    << <<"Teriyaki", "Chicken">>, <<"Walnut", "Shrimp">> >> }
\* prices GET price/<item> may serve, in cents
PriceOf == [ Appetizer |-> {150}, Plate |-> {980} ]
\* prices GET price/<size> <type> serves, in cents
SizePriceOf ==
    ( "Medium Side" :> 440 ) @@ ( "Large Side" :> 540 ) @@
    ( "Small Entree" :> 520 ) @@ ( "Medium Entree" :> 850 ) @@
    ( "Large Entree" :> 1120 )

\* GET foodid/<name>: the food table; a name it does not hold fails the call
FoodTable ==
    ( <<"Egg", "Roll">> :> 1 ) @@ ( <<"Rangoon">> :> 2 ) @@
    ( <<"Chow", "Mein">> :> 3 ) @@ ( <<"Fried", "Rice">> :> 4 ) @@
    ( <<"Orange", "Chicken">> :> 5 ) @@ ( <<"Teriyaki", "Chicken">> :> 6 ) @@
    ( <<"Walnut", "Shrimp">> :> 7 ) @@ ( <<"Rice">> :> 8 )
GetFoodID(name) == FoodTable[name]
FoodKnown(name) == name \in DOMAIN FoodTable

\* GET itemid/<composite name>: the item-type table.  Item ids and food ids
\* come from different tables and may take the same numbers.
ItemTable ==
    ( "Appetizer" :> 1 ) @@ ( "Plate" :> 2 ) @@
    ( "Medium Side" :> 3 ) @@ ( "Large Side" :> 4 ) @@
    ( "Small Entree" :> 5 ) @@ ( "Medium Entree" :> 6 ) @@
    ( "Large Entree" :> 7 )
GetBaseItemID(composite) == ItemTable[composite]

\* the out of stock lists MainContent may hand to the menus; the default of
\* the prop is the empty object
InStock == [Appetizer |-> {}, Side |-> {}, Entree |-> {}]
StockChoices ==
    { InStock,
      [Appetizer |-> {<<"Rangoon">>}, Side |-> {}, Entree |-> {}],
      [Appetizer |-> {}, Side |-> {<<"Chow", "Mein">>},
       Entree |-> {<<"Teriyaki", "Chicken">>}] }

\* ------------------------------------------------------------ JS helpers
\* null / undefined of a name or of a transaction entry
Null == <<>>

\* Array.prototype.includes / indexOf > -1 on an array of names
ArrIncludes(arr, x) == \E i \in 1..Len(arr) : arr[i] = x

\* Array.prototype.filter(item => item !== x)
RECURSIVE ArrWithout(_, _)
ArrWithout(arr, x) ==
    IF arr = <<>> THEN <<>>
    ELSE IF Head(arr) = x THEN ArrWithout(Tail(arr), x)
         ELSE <<Head(arr)>> \o ArrWithout(Tail(arr), x)

\* arr.splice(index, 1) with a 0-based index: nothing goes when index is
\* past the end
Splice1(arr, index) ==
    IF index < Len(arr)
    THEN SubSeq(arr, 1, index) \o SubSeq(arr, index + 2, Len(arr))
    ELSE arr

\* the calls in flight are a bag: responses arrive in any order
OneCall(call) == SetToBag({call})

\* arr[i] for a 0-based i, undefined past the end
At0(arr, i) == IF i < Len(arr) THEN arr[i + 1] ELSE Null

RECURSIVE SumPrices(_)
SumPrices(items) ==
    IF items = <<>> THEN 0 ELSE Head(items).price + SumPrices(Tail(items))

\* ----------------------------------------------------------------- state
VARIABLES
    \* root component
    cartItems, transactionCart, cartTotal,
    \* Appetizers.vue
    selectedAppetizers, appPrice, appCalls,
    \* Plate.vue: selectedSide, selectedEntrees, price, premiumEntrees
    plateSelectedSide, plateSelectedEntrees, platePrice, platePremiumEntrees,
    plateCalls,
    \* ALaCarte.vue: selectedSides, selectedEntrees, showSizeModal,
    \* currentItem, currentItemType, premiumEntrees
    alaSelectedSides, alaSelectedEntrees, showSizeModal, currentItem,
    currentItemType, alaPremiumEntrees, alaCalls,
    \* root component: the order flow.  orderCalls holds the requests of
    \* completeOrder in flight, orderAlert the error of the alert on screen
    isCheckoutVisible, showUserInfo, isOrderComplete, selectedPayment,
    transactionId, readyTime, orderCalls, orderAlert,
    \* the service: the transactions table, which latestID reads back, the
    \* transactionitems table, and the decrements it has applied to the
    \* inventory by item type and by food
    srvTransactions, srvLineItems, srvItemTypeDecrements, srvFoodDecrements,
    \* the outOfStockItems prop MainContent hands to every menu: for each
    \* category the names that are out of stock
    outOfStockItems

cartVars  == <<cartItems, transactionCart, cartTotal>>
flowVars  == <<isCheckoutVisible, showUserInfo, isOrderComplete>>
srvVars   == <<srvTransactions, srvLineItems, srvItemTypeDecrements,
               srvFoodDecrements>>
orderVars == <<flowVars, selectedPayment, transactionId, readyTime,
               orderCalls, orderAlert, srvVars>>
rootVars  == <<cartVars, orderVars>>
appVars   == <<selectedAppetizers, appPrice, appCalls>>
plateVars == <<plateSelectedSide, plateSelectedEntrees, platePrice,
               platePremiumEntrees, plateCalls>>
alaVars   == <<alaSelectedSides, alaSelectedEntrees, showSizeModal,
               currentItem, currentItemType, alaPremiumEntrees, alaCalls>>
vars      == <<rootVars, appVars, plateVars, alaVars, outOfStockItems>>

\* ------------------------------------------------ root component: the cart
\* (mutant) an array is pushed as far as its first line only
addToCart_firstOnly(items, item) ==
    IF item.isArray THEN Append(items, item.lines[1])
    ELSE Append(items, item.line)

\* addToCart(item): an array is spread, a single line is pushed
addToCart(items, item) ==
    IF item.isArray THEN items \o item.lines ELSE Append(items, item.line)

\* addToTransactionCart(entry)
addToTransactionCart(entries, entry) == Append(entries, entry)

\* the total the Cart panel reports through @updateTotal
CartPanelTotal(items) == SumPrices(items)

\* (mutant) the reported total is added to the one held
updateCartTotal_added(old, newTotal) == old + newTotal

\* updateCartTotal(newTotal)
updateCartTotal(old, newTotal) == newTotal

\* the handlers of the Cart panel's events, with the total it reports after
\* the change (Cart panel -> @updateTotal -> updateCartTotal)
CartAfter(items, entries) ==
    /\ cartItems' = items
    /\ transactionCart' = entries
    /\ cartTotal' = updateCartTotal(cartTotal, CartPanelTotal(items))

RootAfter(items, entries) ==
    /\ CartAfter(items, entries)
    /\ UNCHANGED orderVars

\* data: selectedPayment: null, transactionId: null, readyTime: ''; a
\* payment method is a string, an id and a ready time are numbers
NoPayment == ""
NoTransactionId == 0
NoReadyTime == 0
\* no alert on screen
NoAlert == ""
\* data of ALaCarte.vue: currentItemType: null; a type is a string
NoItemType == ""

\* v-if of MenuBar and MainContent, v-show of the Cart panel
MenuShown == ~isCheckoutVisible /\ ~showUserInfo /\ ~isOrderComplete
\* v-if of CheckoutPage
CheckoutPageShown == isCheckoutVisible /\ ~isOrderComplete
\* v-if of UserInfo
UserInfoShown == showUserInfo /\ ~isOrderComplete
\* v-if of OrderComplete
OrderCompleteShown == isOrderComplete

\* removeFromCart(index), index 0-based
removeFromCartItems(items, index) == Splice1(items, index)
removeFromTransactionCart(entries, index) == Splice1(entries, index)

removeFromCart(index) ==
    /\ MenuShown /\ orderAlert = NoAlert
    /\ index \in 0..(Len(cartItems) - 1)
    /\ RootAfter(removeFromCartItems(cartItems, index),
                 removeFromTransactionCart(transactionCart, index))

\* clearOrder()
clearOrder ==
    /\ MenuShown /\ orderAlert = NoAlert
    /\ cartItems # <<>> \/ transactionCart # <<>>
    /\ RootAfter(<<>>, <<>>)

\* ---------------------------------------------------------- Appetizers.vue
\* getAppetizerName(appetizer) of a menu entry
getAppetizerName(appetizer) ==
    IF appetizer = Null THEN <<"Unknown", "Appetizer">> ELSE appetizer

\* computed canAddToCart
App_canAddToCart == Len(selectedAppetizers) > 0

\* toggleAppetizer(appetizer)
App_toggle(sel, appetizer) ==
    IF ArrIncludes(sel, appetizer)
    THEN ArrWithout(sel, appetizer)
    ELSE Append(sel, appetizer)

\* isOutOfStock(appetizer)
App_isOutOfStock(appetizer) == appetizer \in outOfStockItems.Appetizer

\* the button of an appetizer: disabled while it is out of stock, and
\* @click="!isOutOfStock(appetizer) && toggleAppetizer(appetizer)"
toggleAppetizer(appetizer) ==
    /\ ~App_isOutOfStock(appetizer)
    /\ selectedAppetizers' = App_toggle(selectedAppetizers, appetizer)
    /\ UNCHANGED <<appPrice, appCalls, rootVars, plateVars, alaVars>>
    /\ UNCHANGED outOfStockItems

\* addToCart(): the request for the base item id goes out
App_addToCart ==
    /\ App_canAddToCart
    /\ BagCardinality(appCalls) < MaxAppCalls
    /\ appCalls' = appCalls (+)
                    OneCall([stage |-> "itemid", baseItemID |-> 0, names |-> <<>>])
    /\ UNCHANGED <<selectedAppetizers, appPrice, rootVars, plateVars, alaVars>>
    /\ UNCHANGED outOfStockItems

\* .then(response => ...) of itemid/Appetizer: one foodid request per
\* appetizer selected now
App_itemidThen(call) ==
    /\ call.stage = "itemid"
    /\ \A k \in 1..Len(selectedAppetizers) :
           FoodKnown(getAppetizerName(selectedAppetizers[k]))
    /\ appCalls' = (appCalls (-) OneCall(call)) (+) OneCall(
           [stage |-> "foodid",
            baseItemID |-> GetBaseItemID("Appetizer"),
            names |-> [k \in 1..Len(selectedAppetizers) |->
                          getAppetizerName(selectedAppetizers[k])]])
    /\ UNCHANGED <<selectedAppetizers, appPrice, rootVars, plateVars, alaVars>>
    /\ UNCHANGED outOfStockItems

\* (mutant) the catch clears the selection
App_catch_clears(call) ==
    /\ appCalls' = appCalls (-) OneCall(call)
    /\ selectedAppetizers' = <<>>
    /\ UNCHANGED <<appPrice, rootVars, plateVars, alaVars>>
    /\ UNCHANGED outOfStockItems

\* .catch of either request: alert, nothing else
App_catch(call) ==
    /\ appCalls' = appCalls (-) OneCall(call)
    /\ UNCHANGED <<selectedAppetizers, appPrice, rootVars, plateVars, alaVars>>
    /\ UNCHANGED outOfStockItems

\* transactionEntries of the Promise.all callback
App_transactionEntries(call) ==
    [k \in 1..Len(call.names) |->
        <<call.baseItemID, GetFoodID(call.names[k]), 0, 0, 0>>]

\* itemsToAdd of the Promise.all callback
App_itemsToAdd(sel, price, entries) ==
    [k \in 1..Len(sel) |->
        [name |-> <<"Appetizer:">> \o getAppetizerName(sel[k]),
         price |-> price,
         transactionEntry |-> At0(entries, k - 1)]]

\* what the callback hands to addToTransactionCart
App_emittedEntry(entries) == At0(entries, 0)

\* .then(appetizerResponses => ...) of the foodid requests
App_foodidThen(call) ==
    /\ call.stage = "foodid"
    /\ Len(cartItems) + Len(selectedAppetizers) <= MaxCart
    /\ Len(transactionCart) < MaxCart
    /\ LET entries == App_transactionEntries(call)
           items   == App_itemsToAdd(selectedAppetizers, appPrice, entries)
       IN  RootAfter(addToCart(cartItems, [isArray |-> TRUE, lines |-> items]),
                     addToTransactionCart(transactionCart,
                                          App_emittedEntry(entries)))
    /\ selectedAppetizers' = <<>>
    /\ appCalls' = appCalls (-) OneCall(call)
    /\ UNCHANGED <<appPrice, plateVars, alaVars>>
    /\ UNCHANGED outOfStockItems

\* --------------------------------------------------------------- Plate.vue
\* getSideName(side)
getSideName(side) == IF side = Null THEN <<"Unknown", "Side">> ELSE side

\* getEntreeName(entree)
getEntreeName(entree) == IF entree = Null THEN <<"Unknown", "Entree">> ELSE entree

\* (mutant) the button enabled as soon as a side is chosen
Plate_canAddToCart_sideOnly(side, entrees) == side # Null

\* computed canAddToCart
Plate_canAddToCart(side, entrees) == side # Null /\ Len(entrees) = 2

\* (mutant) a click always selects, never deselects
Plate_selectSide_noToggle(selected, side) == side

\* selectSide(side): the new selectedSide
Plate_selectSide(selected, side) == IF selected = side THEN Null ELSE side

\* (mutant) the arity test off by one: a third entree is taken
Plate_selectEntree_three(selected, entree) ==
    IF ArrIncludes(selected, entree) THEN ArrWithout(selected, entree)
    ELSE IF Len(selected) <= 2 THEN Append(selected, entree)
    ELSE selected

\* selectEntree(entree): the new selectedEntrees
Plate_selectEntree(selected, entree) ==
    IF ArrIncludes(selected, entree) THEN ArrWithout(selected, entree)
    ELSE IF Len(selected) < 2 THEN Append(selected, entree)
    ELSE selected

\* isPremium(entree)
Plate_isPremium(entree) ==
    ArrIncludes(platePremiumEntrees, getEntreeName(entree))

\* premiumCount of addToCart: the forEach over selectedEntrees
RECURSIVE Plate_premiumCount(_)
Plate_premiumCount(entrees) ==
    IF entrees = <<>> THEN 0
    ELSE (IF Plate_isPremium(Head(entrees)) THEN 1 ELSE 0)
         + Plate_premiumCount(Tail(entrees))

\* the surcharge of one premium entree in a plate
PremiumSurcharge == 150

\* (mutant) one surcharge however many premium entrees
Plate_price_flat(base, premiumCount) ==
    base + (IF premiumCount > 0 THEN PremiumSurcharge ELSE 0)

\* price of addToCart
Plate_price(base, premiumCount) == base + premiumCount * PremiumSurcharge

\* entreeNames.join(', ')
RECURSIVE JoinNames(_)
JoinNames(names) ==
    IF names = <<>> THEN <<>>
    ELSE IF Len(names) = 1 THEN Head(names)
    ELSE Head(names) \o <<",">> \o JoinNames(Tail(names))

\* name of the emitted item
Plate_name(sideName, entreeNames) ==
    <<"Plate", "(">> \o sideName \o <<"+">> \o JoinNames(entreeNames) \o <<")">>

\* isOutOfStock(item, category)
Plate_isOutOfStock(item, category) == item \in outOfStockItems[category]

\* the button of a side, disabled while the side is out of stock
selectSide(side) ==
    /\ ~Plate_isOutOfStock(side, "Side")
    /\ plateSelectedSide' = Plate_selectSide(plateSelectedSide, side)
    /\ UNCHANGED <<plateSelectedEntrees, platePrice, platePremiumEntrees,
                   plateCalls, rootVars, appVars, alaVars>>
    /\ UNCHANGED outOfStockItems

\* the button of an entree, disabled while the entree is out of stock
selectEntree(entree) ==
    /\ ~Plate_isOutOfStock(entree, "Entree")
    /\ plateSelectedEntrees' = Plate_selectEntree(plateSelectedEntrees, entree)
    /\ UNCHANGED <<plateSelectedSide, platePrice, platePremiumEntrees,
                   plateCalls, rootVars, appVars, alaVars>>
    /\ UNCHANGED outOfStockItems

\* addToCart(): the request for the base item id goes out.  sideName and
\* entreeNames of the request's record are the selection the button was
\* pressed on; the code keeps no copy of it, and the callback reads the
\* selection anew.
Plate_addToCart ==
    /\ Plate_canAddToCart(plateSelectedSide, plateSelectedEntrees)
    /\ BagCardinality(plateCalls) < MaxPlateCalls
    /\ plateCalls' = plateCalls (+)
           OneCall([stage |-> "itemid", baseItemID |-> 0, price |-> 0,
                    premiumCount |-> 0,
                    sideName |-> getSideName(plateSelectedSide),
                    entreeNames |->
                        [k \in 1..Len(plateSelectedEntrees) |->
                            getEntreeName(plateSelectedEntrees[k])]])
    /\ UNCHANGED <<plateSelectedSide, plateSelectedEntrees, platePrice,
                   platePremiumEntrees, rootVars, appVars, alaVars>>
    /\ UNCHANGED outOfStockItems

\* the foodid requests of a callback can all be answered, and the callback
\* that destructures three responses finds them
Plate_answerable(sideName, entreeNames) ==
    /\ FoodKnown(sideName)
    /\ \A k \in 1..Len(entreeNames) : FoodKnown(entreeNames[k])
    /\ Len(entreeNames) >= 2

\* what the callback of itemid/Plate holds while the foodid requests are in
\* flight.  Requests that can only end in the .catch (a name the food table
\* does not hold, or fewer than two entree responses, which makes
\* entreeResponse2.data throw) differ in nothing that can be seen later and
\* are kept as one record.
Plate_closure(baseItemID, price, premiumCount, sideName, entreeNames) ==
    IF Plate_answerable(sideName, entreeNames)
    THEN [stage |-> "foodid", baseItemID |-> baseItemID, price |-> price,
          premiumCount |-> premiumCount, sideName |-> sideName,
          entreeNames |-> entreeNames]
    ELSE [stage |-> "failing", baseItemID |-> 0, price |-> 0,
          premiumCount |-> 0, sideName |-> <<>>, entreeNames |-> <<>>]

\* .then(response => ...) of itemid/Plate
Plate_itemidThen(call) ==
    /\ call.stage = "itemid"
    /\ LET premiumCount == Plate_premiumCount(plateSelectedEntrees)
           sideName == getSideName(plateSelectedSide)
           entreeNames == [k \in 1..Len(plateSelectedEntrees) |->
                              getEntreeName(plateSelectedEntrees[k])]
       IN  plateCalls' = (plateCalls (-) OneCall(call)) (+) OneCall(
               Plate_closure(GetBaseItemID("Plate"),
                             Plate_price(platePrice, premiumCount),
                             premiumCount, sideName, entreeNames))
    /\ UNCHANGED <<plateSelectedSide, plateSelectedEntrees, platePrice,
                   platePremiumEntrees, rootVars, appVars, alaVars>>
    /\ UNCHANGED outOfStockItems

\* either .catch: alert, nothing else
Plate_catch(call) ==
    /\ plateCalls' = plateCalls (-) OneCall(call)
    /\ UNCHANGED <<plateSelectedSide, plateSelectedEntrees, platePrice,
                   platePremiumEntrees, rootVars, appVars, alaVars>>
    /\ UNCHANGED outOfStockItems

\* transactionEntry of the Promise.all callback
Plate_transactionEntry(call) ==
    <<call.baseItemID, GetFoodID(call.sideName),
      GetFoodID(call.entreeNames[1]), GetFoodID(call.entreeNames[2]), 0>>

\* item of the Promise.all callback
Plate_item(call) ==
    [name |-> Plate_name(call.sideName, call.entreeNames),
     price |-> call.price,
     transactionEntry |-> Plate_transactionEntry(call),
     isPremium |-> call.premiumCount > 0]

\* .then(([sideResponse, entreeResponse1, entreeResponse2]) => ...)
Plate_foodidThen(call) ==
    /\ call.stage = "foodid"
    /\ Len(cartItems) < MaxPlateCart
    /\ RootAfter(addToCart(cartItems,
                           [isArray |-> FALSE, line |-> Plate_item(call)]),
                 addToTransactionCart(transactionCart,
                                      Plate_transactionEntry(call)))
    /\ plateSelectedSide' = Null
    /\ plateSelectedEntrees' = <<>>
    /\ plateCalls' = plateCalls (-) OneCall(call)
    /\ UNCHANGED <<platePrice, platePremiumEntrees, appVars, alaVars>>
    /\ UNCHANGED outOfStockItems

\* ------------------------------------------------------------ ALaCarte.vue
\* String.prototype.includes, on names as tuples of words
Includes(hay, needle) ==
    \E i \in 0..(Len(hay) - Len(needle)) :
        SubSeq(hay, i + 1, i + Len(needle)) = needle

\* data: sizeOptions, after fetchMenuItems and fetchItemPrices
sizeOptions ==
    [ side |->
        << [name |-> "Medium", price |-> SizePriceOf["Medium Side"],
            baseItemID |-> GetBaseItemID("Medium Side")],
           [name |-> "Large", price |-> SizePriceOf["Large Side"],
            baseItemID |-> GetBaseItemID("Large Side")] >>,
      entree |->
        << [name |-> "Small", price |-> SizePriceOf["Small Entree"],
            baseItemID |-> GetBaseItemID("Small Entree")],
           [name |-> "Medium", price |-> SizePriceOf["Medium Entree"],
            baseItemID |-> GetBaseItemID("Medium Entree")],
           [name |-> "Large", price |-> SizePriceOf["Large Entree"],
            baseItemID |-> GetBaseItemID("Large Entree")] >> ]

\* data: premiumPrices
premiumPrices == [ Small |-> 670, Medium |-> 1150, Large |-> 1570 ]

\* isPremium(entree)
ALa_isPremium(entree) ==
    ArrIncludes(alaPremiumEntrees, getEntreeName(entree))

\* the name selectSize and getFoodID take for an item of a type
ALa_itemName(type, item) ==
    IF type = "side" THEN getSideName(item) ELSE getEntreeName(item)

\* the type of the size buttons the modal shows (v-if / v-else on
\* currentItemType)
ALa_modalType == IF currentItemType = "side" THEN "side" ELSE "entree"

\* selectedList.findIndex(item => item.name.includes(name)), 0-based, or -1
ALa_findIndex(list, name) ==
    IF \E k \in 1..Len(list) : Includes(list[k].name, name)
    THEN (CHOOSE k \in 1..Len(list) :
              /\ Includes(list[k].name, name)
              /\ \A j \in 1..(k - 1) : ~Includes(list[j].name, name)) - 1
    ELSE -1

\* (mutant) the premium price put on top of the size price
ALa_price_added(size, type, item) ==
    IF type = "entree" /\ ALa_isPremium(item)
    THEN size.price + premiumPrices[size.name]
    ELSE size.price

\* price of selectSize
ALa_price(size, type, item) ==
    IF type = "entree" /\ ALa_isPremium(item)
    THEN premiumPrices[size.name]
    ELSE size.price

\* name of the entry selectSize writes
ALa_name(type, item, sizeName) ==
    <<IF type = "side" THEN "Side:" ELSE "Entree:">>
        \o ALa_itemName(type, item) \o <<"(", sizeName, ")">>

\* the entry selectSize writes
ALa_entry(size, type, item, foodID) ==
    [name |-> ALa_name(type, item, size.name),
     price |-> ALa_price(size, type, item),
     size |-> size.name,
     isPremium |-> ALa_isPremium(item),
     transactionEntry |-> <<size.baseItemID, foodID, 0, 0, 0>>]

\* the sides and the entrees the A la carte screen lists (menuItems)
ALa_sides == { <<"Chow", "Mein">> }
ALa_entrees == { <<"Teriyaki", "Chicken">> }

\* isOutOfStock(item, category)
ALa_isOutOfStock(item, category) == item \in outOfStockItems[category]

\* toggleSides(side), behind a button that is disabled while the side is
\* out of stock
toggleSides(side) ==
    /\ ~ALa_isOutOfStock(side, "Side")
    /\ currentItem' = side
    /\ currentItemType' = "side"
    /\ showSizeModal' = TRUE
    /\ UNCHANGED <<alaSelectedSides, alaSelectedEntrees, alaPremiumEntrees,
                   alaCalls, rootVars, appVars, plateVars>>
    /\ UNCHANGED outOfStockItems

\* toggleEntrees(entree), behind a button that is disabled while the
\* entree is out of stock
toggleEntrees(entree) ==
    /\ ~ALa_isOutOfStock(entree, "Entree")
    /\ currentItem' = entree
    /\ currentItemType' = "entree"
    /\ showSizeModal' = TRUE
    /\ UNCHANGED <<alaSelectedSides, alaSelectedEntrees, alaPremiumEntrees,
                   alaCalls, rootVars, appVars, plateVars>>
    /\ UNCHANGED outOfStockItems

\* cancelSizeSelection()
cancelSizeSelection ==
    /\ showSizeModal
    /\ showSizeModal' = FALSE
    /\ currentItem' = Null
    /\ UNCHANGED <<alaSelectedSides, alaSelectedEntrees, currentItemType,
                   alaPremiumEntrees, alaCalls, rootVars, appVars, plateVars>>
    /\ UNCHANGED outOfStockItems

\* what the A la carte flow holds: selected entries, pending calls, lines
ALa_load ==
    Len(alaSelectedSides) + Len(alaSelectedEntrees)
        + BagCardinality(alaCalls) + Len(cartItems)

\* selectSize(size, type) up to the await: the list and the index are
\* taken, and getFoodID sends the request for the current item.  detached
\* tells that the list taken is no longer the component's (addToCart has
\* put new arrays in place since).
selectSize(k) ==
    /\ showSizeModal
    /\ ALa_load < MaxAla
    /\ LET type == ALa_modalType
           list == IF type = "side" THEN alaSelectedSides
                   ELSE alaSelectedEntrees
       IN  /\ k \in 1..Len(sizeOptions[type])
           /\ alaCalls' = alaCalls (+) OneCall(
                  [size |-> sizeOptions[type][k],
                   type |-> type,
                   existingItemIndex |->
                       ALa_findIndex(list, ALa_itemName(type, currentItem)),
                   itemName |-> ALa_itemName(ALa_modalType, currentItem),
                   detached |-> FALSE])
    /\ UNCHANGED <<alaSelectedSides, alaSelectedEntrees, showSizeModal,
                   currentItem, currentItemType, alaPremiumEntrees,
                   rootVars, appVars, plateVars>>
    /\ UNCHANGED outOfStockItems

\* selectedList[existingItemIndex] = entry, or selectedList.push(entry)
ALa_write(list, index, entry) ==
    IF index # -1 THEN [list EXCEPT ![index + 1] = entry]
    ELSE Append(list, entry)

\* selectSize after the await, the food id at hand
ALa_selectSizeResume(call) ==
    /\ FoodKnown(call.itemName)
    /\ LET entry == ALa_entry(call.size, call.type, currentItem,
                              GetFoodID(call.itemName))
       IN  IF call.detached
           THEN UNCHANGED <<alaSelectedSides, alaSelectedEntrees>>
           ELSE IF call.type = "side"
           THEN /\ alaSelectedSides' =
                       ALa_write(alaSelectedSides, call.existingItemIndex, entry)
                /\ UNCHANGED alaSelectedEntrees
           ELSE /\ alaSelectedEntrees' =
                       ALa_write(alaSelectedEntrees, call.existingItemIndex,
                                 entry)
                /\ UNCHANGED alaSelectedSides
    /\ showSizeModal' = FALSE
    /\ currentItem' = Null
    /\ currentItemType' = NoItemType
    /\ alaCalls' = alaCalls (-) OneCall(call)
    /\ UNCHANGED <<alaPremiumEntrees, rootVars, appVars, plateVars>>
    /\ UNCHANGED outOfStockItems

\* selectSize: the catch of a failed food id request logs and returns
ALa_selectSizeCatch(call) ==
    /\ alaCalls' = alaCalls (-) OneCall(call)
    /\ UNCHANGED <<alaSelectedSides, alaSelectedEntrees, showSizeModal,
                   currentItem, currentItemType, alaPremiumEntrees,
                   rootVars, appVars, plateVars>>
    /\ UNCHANGED outOfStockItems

\* (mutant) canAddToCart looks at the sides only
ALa_canAddToCart_sidesOnly == Len(alaSelectedSides) > 0

\* computed canAddToCart
ALa_canAddToCart ==
    Len(alaSelectedSides) > 0 \/ Len(alaSelectedEntrees) > 0

\* itemsToAdd.forEach: one addToCart and one addToTransactionCart per item
RECURSIVE ALa_emitItems(_, _)
ALa_emitItems(items, toAdd) ==
    IF toAdd = <<>> THEN items
    ELSE ALa_emitItems(addToCart(items,
                                 [isArray |-> FALSE, line |-> Head(toAdd)]),
                       Tail(toAdd))

RECURSIVE ALa_emitEntries(_, _)
ALa_emitEntries(entries, toAdd) ==
    IF toAdd = <<>> THEN entries
    ELSE ALa_emitEntries(addToTransactionCart(entries,
                                              Head(toAdd).transactionEntry),
                         Tail(toAdd))

\* the calls waiting for a food id hold the arrays addToCart replaces
ALa_detach(calls) ==
    LET one(call) == OneCall([call EXCEPT !.detached = TRUE])
        RECURSIVE all(_)
        all(set) ==
            IF set = {} THEN EmptyBag
            ELSE LET call == CHOOSE c \in set : TRUE
                 IN  [c \in DOMAIN one(call) |-> calls[call]] (+)
                     all(set \ {call})
    IN  all(BagToSet(calls))

\* addToCart()
ALa_addToCart ==
    /\ ALa_canAddToCart
    /\ LET itemsToAdd == alaSelectedSides \o alaSelectedEntrees
       IN  RootAfter(ALa_emitItems(cartItems, itemsToAdd),
                        ALa_emitEntries(transactionCart, itemsToAdd))
    /\ alaSelectedSides' = <<>>
    /\ alaSelectedEntrees' = <<>>
    /\ alaCalls' = ALa_detach(alaCalls)
    /\ UNCHANGED <<showSizeModal, currentItem, currentItemType,
                   alaPremiumEntrees, appVars, plateVars>>
    /\ UNCHANGED outOfStockItems

\* ------------------------------------------- root component: the order flow
childVars == <<appVars, plateVars, alaVars, outOfStockItems>>

\* the transactions the service holds when the session starts
EarlierTransactions ==
    << [transactionID |-> 1, total |-> 980, paymentMethod |-> "Cash"] >>

\* GET transactions/latestID: the largest id among the transactions
LatestID(transactions) ==
    IF transactions = <<>> THEN 0
    ELSE CHOOSE id \in {transactions[k].transactionID :
                            k \in 1..Len(transactions)} :
             \A k \in 1..Len(transactions) :
                 transactions[k].transactionID <= id

\* the payment methods CheckoutPage reports through @updatePayment
Payments == {"Card"}

\* the error the catch of completeOrder receives and answers with an alert
MissingPayment == "Payment method is not selected."
RequestFailed == "Request failed"

\* the completeOrder runs so far: the requests in flight and the
\* transactions the service has taken from this session
Order_load ==
    BagCardinality(orderCalls)
        + (Len(srvTransactions) - Len(EarlierTransactions))

\* alert() keeps every handler and callback waiting until it is dismissed
AlertOpen == orderAlert # NoAlert

dismissAlert ==
    /\ AlertOpen
    /\ orderAlert' = NoAlert
    /\ UNCHANGED <<cartVars, flowVars, selectedPayment, transactionId,
                   readyTime, orderCalls, srvVars, childVars>>

\* proceedToCheckout()
proceedToCheckout ==
    /\ MenuShown /\ ~AlertOpen
    /\ isCheckoutVisible' = TRUE
    /\ UNCHANGED <<cartVars, showUserInfo, isOrderComplete, selectedPayment,
                   transactionId, readyTime, orderCalls, orderAlert, srvVars,
                   childVars>>

\* updatePaymentMethod(paymentMethod)
updatePaymentMethod(paymentMethod) ==
    /\ CheckoutPageShown /\ ~AlertOpen
    /\ selectedPayment' = paymentMethod
    /\ UNCHANGED <<cartVars, flowVars, transactionId, readyTime, orderCalls,
                   orderAlert, srvVars, childVars>>

\* goToUserInfo()
goToUserInfo ==
    /\ CheckoutPageShown /\ ~AlertOpen
    /\ isCheckoutVisible' = FALSE
    /\ showUserInfo' = TRUE
    /\ UNCHANGED <<cartVars, isOrderComplete, selectedPayment, transactionId,
                   readyTime, orderCalls, orderAlert, srvVars, childVars>>

\* (mutant) leaving the checkout page empties the cart
resetContent_clears ==
    /\ CheckoutPageShown /\ ~AlertOpen
    /\ isCheckoutVisible' = FALSE
    /\ CartAfter(<<>>, <<>>)
    /\ UNCHANGED <<showUserInfo, isOrderComplete, selectedPayment,
                   transactionId, readyTime, orderCalls, orderAlert, srvVars,
                   childVars>>

\* resetContent()
resetContent ==
    /\ CheckoutPageShown /\ ~AlertOpen
    /\ isCheckoutVisible' = FALSE
    /\ UNCHANGED <<cartVars, showUserInfo, isOrderComplete, selectedPayment,
                   transactionId, readyTime, orderCalls, orderAlert, srvVars,
                   childVars>>

\* (mutant) cancelUserInfo goes back to the checkout page
cancelUserInfo_toCheckout ==
    /\ UserInfoShown /\ ~AlertOpen
    /\ showUserInfo' = FALSE
    /\ isCheckoutVisible' = TRUE
    /\ UNCHANGED <<cartVars, isOrderComplete, selectedPayment, transactionId,
                   readyTime, orderCalls, orderAlert, srvVars, childVars>>

\* cancelUserInfo()
cancelUserInfo ==
    /\ UserInfoShown /\ ~AlertOpen
    /\ showUserInfo' = FALSE
    /\ UNCHANGED <<cartVars, isCheckoutVisible, isOrderComplete,
                   selectedPayment, transactionId, readyTime, orderCalls,
                   orderAlert, srvVars, childVars>>

\* (mutant) the new order keeps the cart of the completed one
resetOrder_keepsCart ==
    /\ OrderCompleteShown /\ ~AlertOpen
    /\ isOrderComplete' = FALSE
    /\ transactionId' = NoTransactionId
    /\ readyTime' = NoReadyTime
    /\ isCheckoutVisible' = FALSE
    /\ showUserInfo' = FALSE
    /\ UNCHANGED <<cartVars, selectedPayment, orderCalls, orderAlert,
                   srvVars, childVars>>

\* resetOrder(); the Cart panel reports the total of the emptied cart
resetOrder ==
    /\ OrderCompleteShown /\ ~AlertOpen
    /\ isOrderComplete' = FALSE
    /\ CartAfter(<<>>, <<>>)
    /\ transactionId' = NoTransactionId
    /\ readyTime' = NoReadyTime
    /\ isCheckoutVisible' = FALSE
    /\ showUserInfo' = FALSE
    /\ UNCHANGED <<selectedPayment, orderCalls, orderAlert, srvVars,
                   childVars>>

\* Math.random(): a number from 0 up to, and not including, 1; here its
\* numerator over RandomSteps
Math_random == 0..(RandomSteps - 1)

\* (mutant) the random number is scaled by 7
randomMinutes_bySeven(random) == ((random * 7) \div RandomSteps) + 5

\* randomMinutes: Math.floor(Math.random() * 6) + 5
randomMinutes(random) == ((random * 6) \div RandomSteps) + 5

\* calculateReadyTime(): the minutes setMinutes adds to now; the ready time
\* is kept as this distance from now
calculateReadyTime == {randomMinutes(random) : random \in Math_random}

\* completeOrder() up to the await: the latest id is asked for
completeOrder ==
    /\ UserInfoShown /\ ~AlertOpen
    /\ orderCalls' = orderCalls (+) OneCall([stage |-> "latestID"])
    /\ UNCHANGED <<cartVars, flowVars, selectedPayment, transactionId,
                   readyTime, orderAlert, srvVars, childVars>>

\* the request completeOrder posts to transaction
Order_transactionCall ==
    [stage |-> "transaction", transactionID |-> transactionId',
     total |-> cartTotal, paymentMethod |-> selectedPayment]

\* (mutant) the transaction is posted whatever the payment method
completeOrder_latestIDThen_unchecked(call) ==
    /\ ~AlertOpen
    /\ call.stage = "latestID"
    /\ transactionId' = LatestID(srvTransactions)
    /\ orderAlert' = orderAlert
    /\ orderCalls' = (orderCalls (-) OneCall(call))
                         (+) OneCall(Order_transactionCall)
    /\ UNCHANGED <<cartVars, flowVars, selectedPayment, readyTime, srvVars,
                   childVars>>

\* completeOrder after the await: the id is kept, the payment method is
\* checked, the transaction is posted; a missing payment method is thrown
\* to the catch, which alerts
completeOrder_latestIDThen(call) ==
    /\ ~AlertOpen
    /\ call.stage = "latestID"
    /\ transactionId' = LatestID(srvTransactions)
    /\ IF selectedPayment = NoPayment
       THEN /\ orderAlert' = MissingPayment
            /\ orderCalls' = orderCalls (-) OneCall(call)
       ELSE /\ orderAlert' = orderAlert
            /\ orderCalls' = (orderCalls (-) OneCall(call))
                                 (+) OneCall(Order_transactionCall)
    /\ UNCHANGED <<cartVars, flowVars, selectedPayment, readyTime, srvVars,
                   childVars>>

\* completeOrder: the latest id request failed; the catch alerts
completeOrder_latestIDCatch(call) ==
    /\ ~AlertOpen
    /\ call.stage = "latestID"
    /\ orderAlert' = RequestFailed
    /\ orderCalls' = orderCalls (-) OneCall(call)
    /\ UNCHANGED <<cartVars, flowVars, selectedPayment, transactionId,
                   readyTime, srvVars, childVars>>

\* transactionCartItems: the id put before each entry of transactionCart
Order_transactionCartItems(id, entries) ==
    [k \in 1..Len(entries) |-> <<id>> \o entries[k]]

\* (mutant) foodids holds every slot food1..food4
Order_foodids_all(item) == SubSeq(item, 3, 6)

\* foodids: the slots food1..food4 that are not 0
Order_foodids(item) ==
    SelectSeq(SubSeq(item, 3, 6), LAMBDA f : f # 0)

\* the two requests completeOrder sends for line i, i counted from 0
Order_lineCallsOf(items, i) ==
    OneCall([stage |-> "itemtype", line |-> i, itemid |-> items[i + 1][2]])
    (+) OneCall([stage |-> "transactionitems", line |-> i,
                 item |-> items[i + 1],
                 foodids |-> Order_foodids(items[i + 1])])

\* the requests of the loop over transactionCartItems, from line i on
RECURSIVE Order_lineCallsFrom(_, _)
Order_lineCallsFrom(items, i) ==
    IF i >= Len(items) THEN EmptyBag
    ELSE Order_lineCallsOf(items, i) (+) Order_lineCallsFrom(items, i + 1)

\* (mutant) the loop stops after the first line
Order_lineCalls_firstOnly(items) ==
    IF items = <<>> THEN EmptyBag ELSE Order_lineCallsOf(items, 0)

Order_lineCalls(items) == Order_lineCallsFrom(items, 0)

\* .then of the transaction post: the service holds the transaction, and
\* every line's item type decrement and transaction item are sent
completeOrder_transactionThen(call) ==
    /\ ~AlertOpen
    /\ call.stage = "transaction"
    /\ srvTransactions' = Append(srvTransactions,
           [transactionID |-> call.transactionID, total |-> call.total,
            paymentMethod |-> call.paymentMethod])
    /\ orderCalls' = (orderCalls (-) OneCall(call))
           (+) Order_lineCalls(
                   Order_transactionCartItems(transactionId, transactionCart))
    /\ UNCHANGED <<cartVars, flowVars, selectedPayment, transactionId,
                   readyTime, orderAlert, srvLineItems,
                   srvItemTypeDecrements, srvFoodDecrements, childVars>>

\* .catch of the transaction post: console.error
completeOrder_transactionCatch(call) ==
    /\ ~AlertOpen
    /\ call.stage = "transaction"
    /\ orderCalls' = orderCalls (-) OneCall(call)
    /\ UNCHANGED <<cartVars, flowVars, selectedPayment, transactionId,
                   readyTime, orderAlert, srvVars, childVars>>

\* inventory/subtract/itemtypes: the service takes the item type from the
\* inventory, and .then logs the answer
completeOrder_itemtypeThen(call) ==
    /\ ~AlertOpen
    /\ call.stage = "itemtype"
    /\ srvItemTypeDecrements' = srvItemTypeDecrements (+) OneCall(call.itemid)
    /\ orderCalls' = orderCalls (-) OneCall(call)
    /\ UNCHANGED <<cartVars, flowVars, selectedPayment, transactionId,
                   readyTime, orderAlert, srvTransactions, srvLineItems,
                   srvFoodDecrements, childVars>>

\* inventory/subtract/itemtypes fails: the rejection has no handler
completeOrder_itemtypeFail(call) ==
    /\ ~AlertOpen
    /\ call.stage = "itemtype"
    /\ orderCalls' = orderCalls (-) OneCall(call)
    /\ UNCHANGED <<cartVars, flowVars, selectedPayment, transactionId,
                   readyTime, orderAlert, srvVars, childVars>>

\* the inventory/subtract requests of a line
RECURSIVE Order_foodCalls(_, _)
Order_foodCalls(line, foodids) ==
    IF foodids = <<>> THEN EmptyBag
    ELSE OneCall([stage |-> "food", line |-> line, foodid |-> Head(foodids)])
         (+) Order_foodCalls(line, Tail(foodids))

\* the two .then of the transactionitems post: the service holds the
\* line, the food decrements are sent, and the order is shown as complete
completeOrder_transactionitemsThen(call) ==
    /\ ~AlertOpen
    /\ call.stage = "transactionitems"
    /\ srvLineItems' = srvLineItems (+) OneCall(call.item)
    /\ orderCalls' = (orderCalls (-) OneCall(call))
                         (+) Order_foodCalls(call.line, call.foodids)
    /\ readyTime' \in calculateReadyTime
    /\ isOrderComplete' = TRUE
    /\ showUserInfo' = FALSE
    /\ UNCHANGED <<cartVars, isCheckoutVisible, selectedPayment,
                   transactionId, orderAlert, srvTransactions,
                   srvItemTypeDecrements, srvFoodDecrements, childVars>>

\* .catch of the transactionitems post: console.error
completeOrder_transactionitemsCatch(call) ==
    /\ ~AlertOpen
    /\ call.stage = "transactionitems"
    /\ orderCalls' = orderCalls (-) OneCall(call)
    /\ UNCHANGED <<cartVars, flowVars, selectedPayment, transactionId,
                   readyTime, orderAlert, srvVars, childVars>>

\* inventory/subtract: the service takes the food from the inventory, and
\* .then logs the answer
completeOrder_foodThen(call) ==
    /\ ~AlertOpen
    /\ call.stage = "food"
    /\ srvFoodDecrements' = srvFoodDecrements (+) OneCall(call.foodid)
    /\ orderCalls' = orderCalls (-) OneCall(call)
    /\ UNCHANGED <<cartVars, flowVars, selectedPayment, transactionId,
                   readyTime, orderAlert, srvTransactions, srvLineItems,
                   srvItemTypeDecrements, childVars>>

\* (mutant) a failed food decrement takes the order back to the form
completeOrder_foodFail_undo(call) ==
    /\ ~AlertOpen
    /\ call.stage = "food"
    /\ orderCalls' = orderCalls (-) OneCall(call)
    /\ isOrderComplete' = FALSE
    /\ showUserInfo' = TRUE
    /\ UNCHANGED <<cartVars, isCheckoutVisible, selectedPayment,
                   transactionId, readyTime, orderAlert, srvVars, childVars>>

\* inventory/subtract fails: the rejection has no handler
completeOrder_foodFail(call) ==
    /\ ~AlertOpen
    /\ call.stage = "food"
    /\ orderCalls' = orderCalls (-) OneCall(call)
    /\ UNCHANGED <<cartVars, flowVars, selectedPayment, transactionId,
                   readyTime, orderAlert, srvVars, childVars>>

\* the lines A la carte hands over one by one, here a Medium side and a
\* Medium entree
Order_lines ==
    { ALa_entry(sizeOptions.side[1], "side", <<"Chow", "Mein">>,
                GetFoodID(<<"Chow", "Mein">>)),
      ALa_entry(sizeOptions.entree[2], "entree", <<"Walnut", "Shrimp">>,
                GetFoodID(<<"Walnut", "Shrimp">>)) }

\* the line Plate hands over, a side and two entrees
Order_plates ==
    { Plate_item([baseItemID |-> GetBaseItemID("Plate"),
                  price |-> Plate_price(980, 0), premiumCount |-> 0,
                  sideName |-> <<"Chow", "Mein">>,
                  entreeNames |-> << <<"Orange", "Chicken">>,
                                     <<"Teriyaki", "Chicken">> >>]) }

\* the selections Appetizers hands over as one array
Order_selections == { << <<"Rangoon">> >> }

\* MainContent passes on a menu's addToCart(item) and
\* addToTransactionCart(item.transactionEntry)
MainContent_addLine(line) ==
    /\ MenuShown /\ ~AlertOpen
    /\ RootAfter(addToCart(cartItems, [isArray |-> FALSE, line |-> line]),
                 addToTransactionCart(transactionCart, line.transactionEntry))
    /\ UNCHANGED childVars

\* MainContent passes on the addToCart(itemsToAdd) and
\* addToTransactionCart(transactionEntries[0]) of Appetizers
MainContent_addLines(sel) ==
    /\ MenuShown /\ ~AlertOpen
    /\ LET entries == App_transactionEntries(
                          [baseItemID |-> GetBaseItemID("Appetizer"),
                           names |-> sel])
           items   == App_itemsToAdd(sel, appPrice, entries)
       IN  RootAfter(addToCart(cartItems, [isArray |-> TRUE, lines |-> items]),
                     addToTransactionCart(transactionCart,
                                          App_emittedEntry(entries)))
    /\ UNCHANGED childVars

\* ----------------------------------------------------------- specification
RootInit ==
    /\ cartItems = <<>>
    /\ transactionCart = <<>>
    /\ cartTotal = 0
    /\ isCheckoutVisible = FALSE
    /\ showUserInfo = FALSE
    /\ isOrderComplete = FALSE
    /\ selectedPayment = NoPayment
    /\ transactionId = NoTransactionId
    /\ readyTime = NoReadyTime
    /\ orderCalls = EmptyBag
    /\ orderAlert = NoAlert
    /\ srvTransactions = EarlierTransactions
    /\ srvLineItems = EmptyBag
    /\ srvItemTypeDecrements = EmptyBag
    /\ srvFoodDecrements = EmptyBag
    /\ outOfStockItems = InStock

AppInit ==
    /\ selectedAppetizers = <<>>
    /\ appPrice \in PriceOf.Appetizer
    /\ appCalls = EmptyBag

PlateInit ==
    /\ plateSelectedSide = Null
    /\ plateSelectedEntrees = <<>>
    /\ platePrice \in PriceOf.Plate
    /\ platePremiumEntrees \in PremiumChoices
    /\ plateCalls = EmptyBag

\* a component that is not on screen: its state stays as constructed
PlateIdle ==
    /\ plateSelectedSide = Null
    /\ plateSelectedEntrees = <<>>
    /\ platePrice = 0
    /\ platePremiumEntrees = <<>>
    /\ plateCalls = EmptyBag

AppIdle ==
    /\ selectedAppetizers = <<>>
    /\ appPrice = 0
    /\ appCalls = EmptyBag

AlaInit ==
    /\ alaSelectedSides = <<>>
    /\ alaSelectedEntrees = <<>>
    /\ showSizeModal = FALSE
    /\ currentItem = Null
    /\ currentItemType = NoItemType
    /\ alaPremiumEntrees \in PremiumChoices
    /\ alaCalls = EmptyBag

AlaIdle ==
    /\ alaSelectedSides = <<>>
    /\ alaSelectedEntrees = <<>>
    /\ showSizeModal = FALSE
    /\ currentItem = Null
    /\ currentItemType = NoItemType
    /\ alaPremiumEntrees = <<>>
    /\ alaCalls = EmptyBag

\* the cart fed by the Appetizers menu
Init == RootInit /\ AppInit /\ PlateIdle /\ AlaIdle

Next ==
    \/ \E a \in Appetizers : toggleAppetizer(a)
    \/ App_addToCart
    \/ \E call \in BagToSet(appCalls) : App_itemidThen(call)
    \/ \E call \in BagToSet(appCalls) : App_catch(call)
    \/ \E call \in BagToSet(appCalls) : App_foodidThen(call)
    \/ \E index \in 0..MaxCart :
           removeFromCart(index) /\ UNCHANGED childVars
    \/ clearOrder /\ UNCHANGED childVars

Spec == Init /\ [][Next]_vars

\* the cart fed by the Plate menu
InitPlate == RootInit /\ PlateInit /\ AppIdle /\ AlaIdle

NextPlate ==
    \/ \E side \in Sides : selectSide(side)
    \/ \E entree \in Entrees : selectEntree(entree)
    \/ Plate_addToCart
    \/ \E call \in BagToSet(plateCalls) : Plate_itemidThen(call)
    \/ \E call \in BagToSet(plateCalls) : Plate_catch(call)
    \/ \E call \in BagToSet(plateCalls) : Plate_foodidThen(call)
    \/ \E index \in 0..MaxPlateCart :
           removeFromCart(index) /\ UNCHANGED childVars
    \/ clearOrder /\ UNCHANGED childVars

SpecPlate == InitPlate /\ [][NextPlate]_vars

\* the cart fed by the A la carte menu
InitALaCarte == RootInit /\ AlaInit /\ AppIdle /\ PlateIdle

NextALaCarte ==
    \/ \E side \in ALa_sides : toggleSides(side)
    \/ \E entree \in ALa_entrees : toggleEntrees(entree)
    \/ cancelSizeSelection
    \/ \E k \in 1..3 : selectSize(k)
    \/ \E call \in BagToSet(alaCalls) : ALa_selectSizeResume(call)
    \/ \E call \in BagToSet(alaCalls) : ALa_selectSizeCatch(call)
    \/ ALa_addToCart
    \/ \E index \in 0..MaxAla :
           removeFromCart(index) /\ UNCHANGED childVars
    \/ clearOrder /\ UNCHANGED childVars

SpecALaCarte == InitALaCarte /\ [][NextALaCarte]_vars

\* the menu on screen, Appetizers, A la carte or Plate, filling the cart: the
\* component on screen is the one whose mounted hook has run
AppMounted == appPrice \in PriceOf.Appetizer
AlaMounted == alaPremiumEntrees \in PremiumChoices
PlateMounted == platePrice \in PriceOf.Plate

InitMenus == Init \/ InitALaCarte \/ InitPlate

NextMenus ==
    \/ AppMounted /\ \E a \in Appetizers : toggleAppetizer(a)
    \/ AppMounted /\ App_addToCart
    \/ \E call \in BagToSet(appCalls) : App_itemidThen(call)
    \/ \E call \in BagToSet(appCalls) : App_catch(call)
    \/ \E call \in BagToSet(appCalls) : App_foodidThen(call)
    \/ AlaMounted /\ \E side \in ALa_sides : toggleSides(side)
    \/ AlaMounted /\ \E entree \in ALa_entrees : toggleEntrees(entree)
    \/ cancelSizeSelection
    \/ \E k \in 1..3 : selectSize(k)
    \/ \E call \in BagToSet(alaCalls) : ALa_selectSizeResume(call)
    \/ \E call \in BagToSet(alaCalls) : ALa_selectSizeCatch(call)
    \/ ALa_addToCart
    \/ PlateMounted /\ \E side \in Sides : selectSide(side)
    \/ PlateMounted /\ \E entree \in Entrees : selectEntree(entree)
    \/ Plate_addToCart
    \/ \E call \in BagToSet(plateCalls) : Plate_itemidThen(call)
    \/ \E call \in BagToSet(plateCalls) : Plate_catch(call)
    \/ \E call \in BagToSet(plateCalls) : Plate_foodidThen(call)

SpecMenus == InitMenus /\ [][NextMenus]_vars

\* MainContent hands the menus a new out of stock list
MainContent_outOfStock(stock) ==
    /\ stock # outOfStockItems
    /\ outOfStockItems' = stock
    /\ UNCHANGED <<rootVars, appVars, plateVars, alaVars>>

\* the menu on screen while the stock of the catalog changes
NextStock ==
    \/ NextMenus
    \/ \E stock \in StockChoices : MainContent_outOfStock(stock)

SpecStock == InitMenus /\ [][NextStock]_vars

\* the whole order: the cart fed by the menus, checkout, completeOrder
AlaOnMenu ==
    /\ alaSelectedSides = <<>>
    /\ alaSelectedEntrees = <<>>
    /\ showSizeModal = FALSE
    /\ currentItem = Null
    /\ currentItemType = NoItemType
    /\ alaPremiumEntrees = << <<"Walnut", "Shrimp">> >>
    /\ alaCalls = EmptyBag

InitOrder == RootInit /\ AppInit /\ PlateIdle /\ AlaOnMenu

NextOrder ==
    \/ \E line \in Order_lines :
           Len(cartItems) < MaxOrderCart /\ MainContent_addLine(line)
    \/ \E sel \in Order_selections :
           Len(cartItems) + Len(sel) <= MaxOrderCart
               /\ MainContent_addLines(sel)
    \/ \E index \in 0..MaxOrderCart :
           removeFromCart(index) /\ UNCHANGED childVars
    \/ clearOrder /\ UNCHANGED childVars
    \/ proceedToCheckout
    \/ \E paymentMethod \in Payments : updatePaymentMethod(paymentMethod)
    \/ goToUserInfo
    \/ resetContent
    \/ cancelUserInfo
    \/ Order_load < MaxOrders /\ Len(transactionCart) <= MaxOrderLines
           /\ completeOrder
    \/ \E call \in BagToSet(orderCalls) :
           Len(transactionCart) <= MaxOrderLines
               /\ completeOrder_latestIDThen(call)
    \/ \E call \in BagToSet(orderCalls) : completeOrder_latestIDCatch(call)
    \/ \E call \in BagToSet(orderCalls) :
           Len(transactionCart) <= MaxOrderLines
               /\ completeOrder_transactionThen(call)
    \/ \E call \in BagToSet(orderCalls) : completeOrder_transactionCatch(call)
    \/ \E call \in BagToSet(orderCalls) : completeOrder_itemtypeThen(call)
    \/ \E call \in BagToSet(orderCalls) : completeOrder_itemtypeFail(call)
    \/ \E call \in BagToSet(orderCalls) :
           completeOrder_transactionitemsThen(call)
    \/ \E call \in BagToSet(orderCalls) :
           completeOrder_transactionitemsCatch(call)
    \/ \E call \in BagToSet(orderCalls) : completeOrder_foodThen(call)
    \/ \E call \in BagToSet(orderCalls) : completeOrder_foodFail(call)
    \/ dismissAlert
    \/ resetOrder

SpecOrder == InitOrder /\ [][NextOrder]_vars

\* one order of one line taken through checkout and completeOrder, where
\* completeOrder may be run again while the order is not shown as complete
NextResubmit ==
    \/ \E line \in Order_lines :
           Len(cartItems) < MaxOrderLines /\ MainContent_addLine(line)
    \/ proceedToCheckout
    \/ \E paymentMethod \in Payments : updatePaymentMethod(paymentMethod)
    \/ goToUserInfo
    \/ resetContent
    \/ cancelUserInfo
    \/ Order_load < MaxSubmits /\ completeOrder
    \/ \E call \in BagToSet(orderCalls) : completeOrder_latestIDThen(call)
    \/ \E call \in BagToSet(orderCalls) : completeOrder_latestIDCatch(call)
    \/ \E call \in BagToSet(orderCalls) : completeOrder_transactionThen(call)
    \/ \E call \in BagToSet(orderCalls) : completeOrder_transactionCatch(call)
    \/ \E call \in BagToSet(orderCalls) : completeOrder_itemtypeThen(call)
    \/ \E call \in BagToSet(orderCalls) : completeOrder_itemtypeFail(call)
    \/ \E call \in BagToSet(orderCalls) :
           completeOrder_transactionitemsThen(call)
    \/ \E call \in BagToSet(orderCalls) :
           completeOrder_transactionitemsCatch(call)
    \/ \E call \in BagToSet(orderCalls) : completeOrder_foodThen(call)
    \/ \E call \in BagToSet(orderCalls) : completeOrder_foodFail(call)
    \/ dismissAlert

SpecResubmit == InitOrder /\ [][NextResubmit]_vars

\* orders of one line taken through checkout and completeOrder, where
\* completeOrder may be run again while the user info form is shown and a
\* new order is started from the order complete screen
NextReorder ==
    \/ NextResubmit
    \/ resetOrder

SpecReorder == InitOrder /\ [][NextReorder]_vars

\* one order of one line taken to the checkout page and the user info form
\* and given up there or submitted, with one run of completeOrder
NextCancel ==
    \/ \E line \in Order_lines :
           Len(cartItems) < MaxOrderLines /\ MainContent_addLine(line)
    \/ proceedToCheckout
    \/ \E paymentMethod \in Payments : updatePaymentMethod(paymentMethod)
    \/ goToUserInfo
    \/ resetContent
    \/ cancelUserInfo
    \/ Order_load = 0 /\ completeOrder
    \/ \E call \in BagToSet(orderCalls) : completeOrder_latestIDThen(call)
    \/ \E call \in BagToSet(orderCalls) : completeOrder_latestIDCatch(call)
    \/ \E call \in BagToSet(orderCalls) : completeOrder_transactionThen(call)
    \/ \E call \in BagToSet(orderCalls) : completeOrder_transactionCatch(call)
    \/ \E call \in BagToSet(orderCalls) : completeOrder_itemtypeThen(call)
    \/ \E call \in BagToSet(orderCalls) : completeOrder_itemtypeFail(call)
    \/ \E call \in BagToSet(orderCalls) :
           completeOrder_transactionitemsThen(call)
    \/ \E call \in BagToSet(orderCalls) :
           completeOrder_transactionitemsCatch(call)
    \/ \E call \in BagToSet(orderCalls) : completeOrder_foodThen(call)
    \/ \E call \in BagToSet(orderCalls) : completeOrder_foodFail(call)
    \/ dismissAlert

SpecCancel == InitOrder /\ [][NextCancel]_vars

\* one order of several lines taken through checkout and one run of
\* completeOrder, the user info form left on screen until the run is over
NextLines ==
    \/ \E line \in Order_lines :
           Len(cartItems) < MaxLineItems /\ MainContent_addLine(line)
    \/ proceedToCheckout
    \/ \E paymentMethod \in Payments : updatePaymentMethod(paymentMethod)
    \/ goToUserInfo
    \/ resetContent
    \/ Order_load = 0 /\ completeOrder
    \/ \E call \in BagToSet(orderCalls) : completeOrder_latestIDThen(call)
    \/ \E call \in BagToSet(orderCalls) : completeOrder_latestIDCatch(call)
    \/ \E call \in BagToSet(orderCalls) : completeOrder_transactionThen(call)
    \/ \E call \in BagToSet(orderCalls) : completeOrder_transactionCatch(call)
    \/ \E call \in BagToSet(orderCalls) : completeOrder_itemtypeThen(call)
    \/ \E call \in BagToSet(orderCalls) : completeOrder_itemtypeFail(call)
    \/ \E call \in BagToSet(orderCalls) :
           completeOrder_transactionitemsThen(call)
    \/ \E call \in BagToSet(orderCalls) :
           completeOrder_transactionitemsCatch(call)
    \/ \E call \in BagToSet(orderCalls) : completeOrder_foodThen(call)
    \/ \E call \in BagToSet(orderCalls) : completeOrder_foodFail(call)
    \/ dismissAlert

SpecLines == InitOrder /\ [][NextLines]_vars

\* one order of A la carte and Plate lines taken through checkout and one
\* run of completeOrder
NextDecrements ==
    \/ \E line \in Order_lines \cup Order_plates :
           Len(cartItems) < MaxOrderLines /\ MainContent_addLine(line)
    \/ proceedToCheckout
    \/ \E paymentMethod \in Payments : updatePaymentMethod(paymentMethod)
    \/ goToUserInfo
    \/ Order_load = 0 /\ completeOrder
    \/ \E call \in BagToSet(orderCalls) : completeOrder_latestIDThen(call)
    \/ \E call \in BagToSet(orderCalls) : completeOrder_latestIDCatch(call)
    \/ \E call \in BagToSet(orderCalls) : completeOrder_transactionThen(call)
    \/ \E call \in BagToSet(orderCalls) : completeOrder_transactionCatch(call)
    \/ \E call \in BagToSet(orderCalls) : completeOrder_itemtypeThen(call)
    \/ \E call \in BagToSet(orderCalls) : completeOrder_itemtypeFail(call)
    \/ \E call \in BagToSet(orderCalls) :
           completeOrder_transactionitemsThen(call)
    \/ \E call \in BagToSet(orderCalls) :
           completeOrder_transactionitemsCatch(call)
    \/ \E call \in BagToSet(orderCalls) : completeOrder_foodThen(call)
    \/ \E call \in BagToSet(orderCalls) : completeOrder_foodFail(call)
    \/ dismissAlert

SpecDecrements == InitOrder /\ [][NextDecrements]_vars

\* the cart alone, fed by the lines and the arrays the menus hand over
Cart_selections ==
    { << <<"Rangoon">> >>, << <<"Egg", "Roll">> >>,
      << <<"Rangoon">>, <<"Egg", "Roll">> >>,
      << <<"Egg", "Roll">>, <<"Rangoon">> >> }

NextCart ==
    \/ \E line \in Order_lines :
           Len(cartItems) < MaxOrderCart /\ MainContent_addLine(line)
    \/ \E sel \in Cart_selections :
           Len(cartItems) + Len(sel) <= MaxOrderCart
               /\ MainContent_addLines(sel)
    \/ \E index \in 0..MaxOrderCart :
           removeFromCart(index) /\ UNCHANGED childVars
    \/ clearOrder /\ UNCHANGED childVars

SpecCart == InitOrder /\ [][NextCart]_vars

\* the life of a cart of several lines: lines added at the price of the
\* catalog and at a later price, removed, cleared, taken through checkout
\* and, for a cart of few lines, through one run of completeOrder and into
\* a new order
CartLife_lines ==
    { ALa_entry(sizeOptions.side[1], "side", <<"Chow", "Mein">>,
                GetFoodID(<<"Chow", "Mein">>)) }

\* the same lines after the catalog has raised the price of the size
CartLife_repriced ==
    { [line EXCEPT !.price = line.price + 100] : line \in CartLife_lines }

NextCartLife ==
    \/ \E line \in CartLife_lines \cup CartLife_repriced :
           Len(cartItems) < MaxCart /\ MainContent_addLine(line)
    \/ \E index \in 0..MaxCart :
           removeFromCart(index) /\ UNCHANGED childVars
    \/ clearOrder /\ UNCHANGED childVars
    \/ proceedToCheckout
    \/ \E paymentMethod \in Payments : updatePaymentMethod(paymentMethod)
    \/ goToUserInfo
    \/ resetContent
    \/ cancelUserInfo
    \/ Order_load = 0 /\ Len(transactionCart) <= MaxOrderLines
           /\ completeOrder
    \/ \E call \in BagToSet(orderCalls) :
           Len(transactionCart) <= MaxOrderLines
               /\ completeOrder_latestIDThen(call)
    \/ \E call \in BagToSet(orderCalls) : completeOrder_latestIDCatch(call)
    \/ \E call \in BagToSet(orderCalls) :
           Len(transactionCart) <= MaxOrderLines
               /\ completeOrder_transactionThen(call)
    \/ \E call \in BagToSet(orderCalls) : completeOrder_transactionCatch(call)
    \/ \E call \in BagToSet(orderCalls) : completeOrder_itemtypeThen(call)
    \/ \E call \in BagToSet(orderCalls) : completeOrder_itemtypeFail(call)
    \/ \E call \in BagToSet(orderCalls) :
           completeOrder_transactionitemsThen(call)
    \/ \E call \in BagToSet(orderCalls) :
           completeOrder_transactionitemsCatch(call)
    \/ \E call \in BagToSet(orderCalls) : completeOrder_foodThen(call)
    \/ \E call \in BagToSet(orderCalls) : completeOrder_foodFail(call)
    \/ dismissAlert
    \/ resetOrder

SpecCartLife == InitOrder /\ [][NextCartLife]_vars

\* an order whose requests are all answered and all succeed: the cart is
\* built by single lines and by the arrays of Appetizers and by removals,
\* taken through checkout and submitted once
NextAnswered ==
    \/ \E line \in Order_lines :
           Len(cartItems) < MaxCart /\ MainContent_addLine(line)
    \/ \E sel \in Cart_selections :
           Len(cartItems) + Len(sel) <= MaxCart /\ MainContent_addLines(sel)
    \/ \E index \in 0..MaxCart :
           removeFromCart(index) /\ UNCHANGED childVars
    \/ proceedToCheckout
    \/ \E paymentMethod \in Payments : updatePaymentMethod(paymentMethod)
    \/ goToUserInfo
    \/ Order_load = 0 /\ completeOrder
    \/ \E call \in BagToSet(orderCalls) : completeOrder_latestIDThen(call)
    \/ \E call \in BagToSet(orderCalls) : completeOrder_transactionThen(call)
    \/ \E call \in BagToSet(orderCalls) : completeOrder_itemtypeThen(call)
    \/ \E call \in BagToSet(orderCalls) :
           completeOrder_transactionitemsThen(call)
    \/ \E call \in BagToSet(orderCalls) : completeOrder_foodThen(call)
    \/ dismissAlert

\* every request in flight is answered in the end
SpecAnswered ==
    /\ InitOrder
    /\ [][NextAnswered]_vars
    /\ WF_vars(\E call \in BagToSet(orderCalls) :
                   completeOrder_latestIDThen(call))
    /\ WF_vars(\E call \in BagToSet(orderCalls) :
                   completeOrder_transactionThen(call))
    /\ WF_vars(\E call \in BagToSet(orderCalls) :
                   completeOrder_itemtypeThen(call))
    /\ WF_vars(\E call \in BagToSet(orderCalls) :
                   completeOrder_transactionitemsThen(call))
    /\ WF_vars(\E call \in BagToSet(orderCalls) :
                   completeOrder_foodThen(call))

\* A la carte with a catalog in which the name of one side is part of the
\* name of another; the sizes are chosen one after another, each food id
\* answered before the next click
ALa_nestedSides == { <<"Fried", "Rice">>, <<"Rice">> }

NextSizes ==
    \/ \E side \in ALa_nestedSides : alaCalls = EmptyBag /\ toggleSides(side)
    \/ \E entree \in ALa_entrees : alaCalls = EmptyBag /\ toggleEntrees(entree)
    \/ alaCalls = EmptyBag /\ cancelSizeSelection
    \/ \E k \in 1..3 : alaCalls = EmptyBag /\ selectSize(k)
    \/ \E call \in BagToSet(alaCalls) : ALa_selectSizeResume(call)
    \/ \E call \in BagToSet(alaCalls) : ALa_selectSizeCatch(call)
    \/ alaCalls = EmptyBag /\ ALa_addToCart

SpecSizes == InitALaCarte /\ [][NextSizes]_vars

\* ------------------------------------------------------------------ claims
\* C1: cartItems and transactionCart have the same length and, at every
\* index, transactionCart holds the transactionEntry of the cart line there.
CartAligned ==
    /\ Len(cartItems) = Len(transactionCart)
    /\ \A i \in 1..Len(cartItems) :
           i <= Len(transactionCart)
               => transactionCart[i] = cartItems[i].transactionEntry

\* C2: removeFromCart(index), for an index of the cart, takes exactly the
\* element at that index out of cartItems and exactly the element at that
\* index out of transactionCart; the others keep their order.
RemoveTakesSameIndex ==
    [][ \A index \in 0..(Len(cartItems) - 1) :
            (removeFromCart(index) /\ UNCHANGED <<appVars, plateVars, alaVars>>)
                => /\ Len(cartItems') = Len(cartItems) - 1
                   /\ \A k \in 1..Len(cartItems') :
                          cartItems'[k] =
                              cartItems[IF k <= index THEN k ELSE k + 1]
                   /\ Len(transactionCart') = Len(transactionCart) - 1
                   /\ \A k \in 1..Len(transactionCart') :
                          transactionCart'[k] =
                              transactionCart[IF k <= index THEN k ELSE k + 1]
      ]_vars

\* a plate of side s and entrees e1, e2 as it is named in the cart
IsPlateOf(line, s, e1, e2) == line.name = Plate_name(s, <<e1, e2>>)

\* C5: every Plate line in the cart is made of one side of the menu and two
\* different entrees; a request to add goes out only from a selection of one
\* side and two entrees, a line is added only by the answer to such a
\* request, and selectedEntrees never holds more than two entrees or one
\* entree twice.
PlateArity ==
    /\ [](/\ Len(plateSelectedEntrees) <= 2
          /\ \A i, j \in 1..Len(plateSelectedEntrees) :
                 i # j => plateSelectedEntrees[i] # plateSelectedEntrees[j]
          /\ \A i \in 1..Len(cartItems) :
                 \E s \in Sides : \E e1, e2 \in Entrees :
                     e1 # e2 /\ IsPlateOf(cartItems[i], s, e1, e2))
    /\ [][ /\ BagCardinality(plateCalls') > BagCardinality(plateCalls)
              => /\ plateSelectedSide \in Sides
                 /\ Len(plateSelectedEntrees) = 2
           /\ Len(cartItems') > Len(cartItems)
              => BagCardinality(plateCalls') < BagCardinality(plateCalls)
         ]_vars

\* a plate line is in the cart
PlateLineInCart ==
    /\ Len(cartItems) >= 1
    /\ \E s \in Sides : \E e1, e2 \in Entrees :
           e1 # e2 /\ IsPlateOf(cartItems[1], s, e1, e2)

\* C6: with two entrees selected, selectEntree of a third one changes
\* neither selectedEntrees nor selectedSide (nor anything else).
PlateSaturation ==
    [][ \A e \in Entrees :
            ( /\ Len(plateSelectedEntrees) = 2
              /\ ~ArrIncludes(plateSelectedEntrees, e)
              /\ selectEntree(e) )
                => UNCHANGED <<plateSelectedEntrees, plateSelectedSide>>
      ]_vars

\* two entrees are selected and a third one is on the menu
PlateSaturated ==
    /\ Len(plateSelectedEntrees) = 2
    /\ \E e \in Entrees : ~ArrIncludes(plateSelectedEntrees, e)
    /\ plateSelectedSide # Null

\* C7: from no side selected, selectSide(s) twice gives no side selected;
\* with fewer than two entrees selected, selectEntree(e) twice of an entree
\* that is not selected gives the selection back.
PlateRoundTrip ==
    /\ plateSelectedSide = Null
          => \A s \in Sides :
                 /\ Plate_selectSide(plateSelectedSide, s) = s
                 /\ Plate_selectSide(Plate_selectSide(plateSelectedSide, s), s)
                        = Null
    /\ \A e \in Entrees :
           ( Len(plateSelectedEntrees) < 2
             /\ ~ArrIncludes(plateSelectedEntrees, e) )
               => /\ ArrIncludes(Plate_selectEntree(plateSelectedEntrees, e), e)
                  /\ Plate_selectEntree(
                         Plate_selectEntree(plateSelectedEntrees, e), e)
                        = plateSelectedEntrees

\* no side and one entree are selected: both round trips start here
PlateRoundTripStart ==
    plateSelectedSide = Null /\ Len(plateSelectedEntrees) = 1

\* the premium entrees among e1, e2, by the list the component holds
PremiumAmong(e1, e2) ==
    Cardinality({k \in 1..2 : ArrIncludes(platePremiumEntrees, <<e1, e2>>[k])})

\* C8: the price of every Plate line in the cart is the Plate price plus
\* 150 cents for each premium entree among its two entrees.
PlatePriceRule ==
    \A i \in 1..Len(cartItems) :
        \E s \in Sides :
            /\ SubSeq(cartItems[i].name, 3, 2 + Len(s)) = s
            /\ \E e1 \in Entrees :
                   /\ SubSeq(cartItems[i].name, 4 + Len(s),
                             3 + Len(s) + Len(e1)) = e1
                   /\ \E e2 \in Entrees :
                          /\ IsPlateOf(cartItems[i], s, e1, e2)
                          /\ cartItems[i].price
                                 = platePrice + 150 * PremiumAmong(e1, e2)
                          /\ cartItems[i].isPremium
                                 = (PremiumAmong(e1, e2) > 0)

\* a plate of two premium entrees is in the cart at the Plate price + 3.00
PlateTwoPremium ==
    /\ Len(cartItems) >= 1
    /\ \E s \in Sides : \E e1, e2 \in Entrees :
           /\ IsPlateOf(cartItems[1], s, e1, e2)
           /\ PremiumAmong(e1, e2) = 2
           /\ cartItems[1].price = platePrice + 300

\* the item an A la carte entry or line names: "Entree: <item> ( <size> )"
ALa_itemOf(line) == SubSeq(line.name, 2, Len(line.name) - 3)

\* the standard price of a size of a side or of an entree
ALa_standardPrice(kind, sizeName) ==
    IF kind = "Side:"
    THEN CASE sizeName = "Medium" -> SizePriceOf["Medium Side"]
           [] sizeName = "Large" -> SizePriceOf["Large Side"]
    ELSE CASE sizeName = "Small" -> SizePriceOf["Small Entree"]
           [] sizeName = "Medium" -> SizePriceOf["Medium Entree"]
           [] sizeName = "Large" -> SizePriceOf["Large Entree"]

ALa_pricedByTable(line) ==
    LET table == [Small |-> 670, Medium |-> 1150, Large |-> 1570]
    IN  IF Head(line.name) = "Entree:"
           /\ ArrIncludes(alaPremiumEntrees, ALa_itemOf(line))
        THEN line.price = table[line.size]
        ELSE line.price = ALa_standardPrice(Head(line.name), line.size)

\* C9: every A la carte entry, selected or already in the cart, that names
\* a premium entree costs the premium table value of its size (Small 6.70,
\* Medium 11.50, Large 15.70), which replaces the standard size price; an
\* entry of a non-premium entree or of a side costs the standard price of
\* its size.
ALaCartePriceRule ==
    /\ \A k \in 1..Len(alaSelectedSides) :
           ALa_pricedByTable(alaSelectedSides[k])
    /\ \A k \in 1..Len(alaSelectedEntrees) :
           ALa_pricedByTable(alaSelectedEntrees[k])
    /\ \A k \in 1..Len(cartItems) : ALa_pricedByTable(cartItems[k])

\* a premium entree selected in size Large, at 15.70 where the standard
\* Large entree costs 11.20
ALaCartePremiumLarge ==
    \E k \in 1..Len(alaSelectedEntrees) :
        /\ alaSelectedEntrees[k].name
               = <<"Entree:", "Teriyaki", "Chicken", "(", "Large", ")">>
        /\ ArrIncludes(alaPremiumEntrees, <<"Teriyaki", "Chicken">>)
        /\ alaSelectedEntrees[k].price = 1570
        /\ SizePriceOf["Large Entree"] = 1120
\* C3: an addToCart with an array of k lines puts the k lines at the end of
\* cartItems in the order of the array, an addToCart with one line puts
\* that line at the end, and the lines held before keep their positions.
AddAppends ==
    [][ /\ \A sel \in Cart_selections :
              MainContent_addLines(sel)
                  => /\ Len(cartItems') = Len(cartItems) + Len(sel)
                     /\ SubSeq(cartItems', 1, Len(cartItems)) = cartItems
                     /\ \A k \in 1..Len(sel) :
                            cartItems'[Len(cartItems) + k].name
                                = <<"Appetizer:">> \o sel[k]
        /\ \A line \in Order_lines :
              MainContent_addLine(line)
                  => cartItems' = cartItems \o <<line>> ]_vars

\* two appetizers added as one array behind a line the cart held
AddedBehind ==
    /\ Len(cartItems) = 3
    /\ cartItems[1].name = <<"Side:", "Chow", "Mein", "(", "Medium", ")">>
    /\ cartItems[2].name = <<"Appetizer:", "Egg", "Roll">>
    /\ cartItems[3].name = <<"Appetizer:", "Rangoon">>

\* the prices of the lines of a cart, in cents
PricesOf(items) == [k \in 1..Len(items) |-> items[k].price]

NoPaymentNoOrder ==
    /\ [](/\ \A call \in BagToSet(orderCalls) :
                call.stage = "transaction"
                    => call.paymentMethod # NoPayment
          /\ \A k \in 1..Len(srvTransactions) :
                srvTransactions[k].paymentMethod # NoPayment
          /\ selectedPayment = NoPayment
                => /\ ~isOrderComplete
                   /\ \A call \in BagToSet(orderCalls) :
                          call.stage = "latestID")
    /\ [][ \A call \in BagToSet(orderCalls) :
              (completeOrder_latestIDThen(call) /\ selectedPayment = NoPayment)
                  => /\ orderAlert' = MissingPayment
                     /\ orderCalls' = orderCalls (-) OneCall(call)
                     /\ srvTransactions' = srvTransactions
                     /\ cartItems' = cartItems
                     /\ transactionCart' = transactionCart
                     /\ isOrderComplete' = isOrderComplete ]_vars

\* the alert of the missing payment method over the user info form, the
\* cart still holding its line
MissingPaymentAlert ==
    /\ orderAlert = MissingPayment
    /\ selectedPayment = NoPayment
    /\ showUserInfo /\ ~isOrderComplete
    /\ cartItems # <<>>
    /\ Len(transactionCart) = Len(cartItems)
    /\ orderCalls = EmptyBag

\* C11: the session goes from the checkout page to the user info form only
\* with a payment method selected; a goToUserInfo with none selected leaves
\* the checkout page on screen.
PaymentBeforeUserInfo ==
    [][ /\ (CheckoutPageShown /\ UserInfoShown')
              => selectedPayment # NoPayment
        /\ (goToUserInfo /\ selectedPayment = NoPayment)
              => CheckoutPageShown' ]_vars

Order_callsOf(calls, stage, line) ==
    {call \in BagToSet(calls) : call.stage = stage /\ call.line = line}

\* the requests of a stage in flight
Order_callsAt(calls, stage) ==
    {call \in BagToSet(calls) : call.stage = stage}

\* a request of the set is sent in this step
Order_issued(calls, newCalls, S) ==
    \E call \in S : CopiesIn(call, newCalls) > CopiesIn(call, calls)

\* a request of the set is answered in this step
Order_answered(calls, newCalls, S) ==
    \E call \in S : CopiesIn(call, newCalls) < CopiesIn(call, calls)

\* C13: the transaction post is sent only in the step that answers the
\* latest id read, a line's transactionitems post only in the step that
\* answers the transaction post, and a line's inventory decrements, by
\* food and by item type, only in the step that answers the
\* transactionitems post of that line.
FinalizeOrdered ==
    [][ /\ Order_issued(orderCalls, orderCalls',
                        Order_callsAt(orderCalls', "transaction"))
              => Order_answered(orderCalls, orderCalls',
                                Order_callsAt(orderCalls, "latestID"))
        /\ Order_issued(orderCalls, orderCalls',
                        Order_callsAt(orderCalls', "transactionitems"))
              => Order_answered(orderCalls, orderCalls',
                                Order_callsAt(orderCalls, "transaction"))
        /\ \A line \in 0..(MaxOrderLines - 1) :
              \/ Order_issued(orderCalls, orderCalls',
                              Order_callsOf(orderCalls', "food", line))
              \/ Order_issued(orderCalls, orderCalls',
                              Order_callsOf(orderCalls', "itemtype", line))
              => Order_answered(orderCalls, orderCalls',
                     Order_callsOf(orderCalls, "transactionitems", line))
      ]_vars

\* C14: no two transactions the service holds have the same transactionID.
UniqueTransactionIDs ==
    \A j, k \in 1..Len(srvTransactions) :
        j # k => srvTransactions[j].transactionID
                     # srvTransactions[k].transactionID

\* C15: for one order, from the first line to the order complete screen,
\* at most one transaction post is sent, also when completeOrder is run
\* again with requests of an earlier run in flight or after an earlier run
\* failed part-way.
OneTransactionPerOrder ==
    (Len(srvTransactions) - Len(EarlierTransactions))
        + BagCardinality([call \in Order_callsAt(orderCalls, "transaction")
                             |-> CopiesIn(call, orderCalls)]) <= 1

\* a request of completeOrder fails: a transactionitems post, an item type
\* decrement or a food decrement
Order_lineFailure(call) ==
    \/ completeOrder_transactionitemsCatch(call)
    \/ completeOrder_itemtypeFail(call)
    \/ completeOrder_foodFail(call)

\* C16: the answer to the transaction post sends, for every line of
\* transactionCart, its transactionitems post and its item type decrement;
\* a failing transactionitems post or decrement takes only its own request
\* out, the requests of the other lines stay in flight and nothing the
\* service holds changes; the answer to a line's transactionitems post
\* sends the food decrements of that line whatever became of the other
\* lines; no step takes a transaction or a line away from the service.
LinesIndependent ==
    [][ /\ \A call \in BagToSet(orderCalls) :
              completeOrder_transactionThen(call)
                  => \A i \in 0..(Len(transactionCart) - 1) :
                         /\ \E c \in Order_callsOf(orderCalls',
                                                   "transactionitems", i) :
                                c.item = <<transactionId>>
                                             \o transactionCart[i + 1]
                         /\ \E c \in Order_callsOf(orderCalls',
                                                   "itemtype", i) :
                                c.itemid = transactionCart[i + 1][1]
        /\ \A call \in BagToSet(orderCalls) :
              Order_lineFailure(call)
                  => /\ orderCalls' = orderCalls (-) OneCall(call)
                     /\ UNCHANGED srvVars
        /\ \A call \in BagToSet(orderCalls) :
              completeOrder_transactionitemsThen(call)
                  => /\ BagIn(call.item, srvLineItems')
                     /\ \A k \in 3..6 :
                            call.item[k] # 0
                                => \E c \in Order_callsOf(orderCalls', "food",
                                                          call.line) :
                                       c.foodid = call.item[k]
        /\ SubSeq(srvTransactions', 1, Len(srvTransactions))
               = srvTransactions
        /\ srvLineItems \sqsubseteq srvLineItems'
      ]_vars

\* an order of two different lines: the transactionitems post of the first
\* line failed, the second line is held by the service with its food
\* decrement, and the transaction is held as well
SecondLineWithoutFirst ==
    /\ Len(transactionCart) = 2
    /\ transactionCart[1] # transactionCart[2]
    /\ orderCalls = EmptyBag
    /\ Len(srvTransactions) = Len(EarlierTransactions) + 1
    /\ srvLineItems = OneCall(<<transactionId>> \o transactionCart[2])
    /\ BagIn(transactionCart[2][2], srvFoodDecrements)
    /\ ~BagIn(transactionCart[1][2], srvFoodDecrements)

\* C17: a failing inventory decrement, by item type or by food, changes
\* nothing but its own request: what the service holds stays, the order
\* stays complete when it was, and the transactionitems posts in flight
\* stay; the answer to a transactionitems post marks the order complete
\* whichever decrements have failed.
DecrementFailureKeepsOrder ==
    [][ /\ \A call \in BagToSet(orderCalls) :
              (completeOrder_itemtypeFail(call)
                   \/ completeOrder_foodFail(call))
                  => /\ UNCHANGED <<srvVars, flowVars, readyTime>>
                     /\ Order_callsAt(orderCalls', "transactionitems")
                            = Order_callsAt(orderCalls, "transactionitems")
        /\ \A call \in BagToSet(orderCalls) :
              completeOrder_transactionitemsThen(call)
                  => /\ isOrderComplete'
                     /\ OrderCompleteShown'
                     /\ readyTime' \in calculateReadyTime ]_vars

\* the order complete screen of an order whose transaction and line the
\* service holds, every decrement of the line having failed
CompleteWithoutDecrements ==
    /\ OrderCompleteShown
    /\ orderCalls = EmptyBag
    /\ Len(srvTransactions) = Len(EarlierTransactions) + 1
    /\ srvLineItems # EmptyBag
    /\ srvItemTypeDecrements = EmptyBag
    /\ srvFoodDecrements = EmptyBag

\* the item type a cart line is sold as: its base item id
Line_baseItemID(line) ==
    CASE Head(line.name) = "Plate" -> ItemTable["Plate"]
      [] Head(line.name) = "Appetizer:" -> ItemTable["Appetizer"]
      [] Head(line.name) = "Side:" ->
             IF line.size = "Medium" THEN ItemTable["Medium Side"]
             ELSE ItemTable["Large Side"]
      [] Head(line.name) = "Entree:" ->
             IF line.size = "Small" THEN ItemTable["Small Entree"]
             ELSE IF line.size = "Medium" THEN ItemTable["Medium Entree"]
             ELSE ItemTable["Large Entree"]

\* the food slots of the entry of a line: the food ids of the items the
\* line names, in their order, then 0
Line_foodSlots(line) ==
    IF Head(line.name) = "Plate"
    THEN {<<GetFoodID(s), GetFoodID(e1), GetFoodID(e2), 0>> :
              <<s, e1, e2>> \in {t \in Sides \X Entrees \X Entrees :
                                    IsPlateOf(line, t[1], t[2], t[3])}}
    ELSE LET item == IF Head(line.name) = "Appetizer:" THEN Tail(line.name)
                     ELSE ALa_itemOf(line)
         IN  IF FoodKnown(item) THEN {<<GetFoodID(item), 0, 0, 0>>} ELSE {}

\* the entry of a line has 5 slots, the base item id first, then the food
\* slots
Line_entryLaidOut(line) ==
    /\ Len(line.transactionEntry) = 5
    /\ line.transactionEntry[1] = Line_baseItemID(line)
    /\ SubSeq(line.transactionEntry, 2, 5) \in Line_foodSlots(line)

\* C18: every transaction entry has exactly 5 slots, the entries handed to
\* transactionCart and the entries of the lines of the cart and of the
\* A la carte selection alike; slot 0 holds the base item id of the item
\* type of the line, the next slots the food ids of the items of the line
\* in the order selected (side, entree 1, entree 2 for a Plate, the one
\* item for an Appetizer and for A la carte), and every other slot 0.
EntryLayout ==
    /\ \A k \in 1..Len(transactionCart) : Len(transactionCart[k]) = 5
    /\ \A k \in 1..Len(cartItems) : Line_entryLaidOut(cartItems[k])
    /\ \A k \in 1..Len(alaSelectedSides) :
           Line_entryLaidOut(alaSelectedSides[k])
    /\ \A k \in 1..Len(alaSelectedEntrees) :
           Line_entryLaidOut(alaSelectedEntrees[k])

\* C19: on the Appetizers menu and on the A la carte menu canAddToCart
\* holds exactly when the selection holds an item, and addToCart takes a
\* step only then: with nothing selected it sends no request, emits no
\* line and no entry, and leaves every variable as it is.
AddNeedsSelection ==
    /\ [](/\ App_canAddToCart <=> Len(selectedAppetizers) >= 1
          /\ ALa_canAddToCart
                <=> Len(alaSelectedSides) + Len(alaSelectedEntrees) >= 1)
    /\ [][ /\ App_addToCart => Len(selectedAppetizers) >= 1
           /\ ALa_addToCart
                 => Len(alaSelectedSides) + Len(alaSelectedEntrees) >= 1
         ]_vars

\* the A la carte menu after an entree was added to the cart: the
\* selection is empty again and canAddToCart is false
AddedAndDisabled ==
    /\ AlaMounted
    /\ cartItems # <<>>
    /\ Head(cartItems[1].name) = "Entree:"
    /\ alaSelectedSides = <<>> /\ alaSelectedEntrees = <<>>
    /\ ~ALa_canAddToCart

\* C20: the checkout page is on screen only with a line in cartItems and
\* an entry in transactionCart, and completeOrder posts a transaction only
\* then.
CheckoutNeedsLines ==
    /\ [](CheckoutPageShown
             => cartItems # <<>> /\ transactionCart # <<>>)
    /\ [][ Order_issued(orderCalls, orderCalls',
                        Order_callsAt(orderCalls', "transaction"))
              => cartItems # <<>> /\ transactionCart # <<>> ]_vars

\* the selections of the three menus
Menu_selections ==
    <<selectedAppetizers, plateSelectedSide, plateSelectedEntrees,
      alaSelectedSides, alaSelectedEntrees>>

\* C21: a lookup that fails while a menu adds to the cart, the base item id
\* or a food id in Appetizers and Plate, the food id in the size selection
\* of A la carte, leaves cartItems, transactionCart and the total as they
\* are, hands nothing to the cart, and leaves the selection of the menu as
\* it was; only the failed request is gone.
FailedLookupKeepsState ==
    [][ /\ \A call \in BagToSet(appCalls) :
              App_catch(call)
                  => /\ UNCHANGED <<cartVars, Menu_selections>>
                     /\ appCalls' = appCalls (-) OneCall(call)
        /\ \A call \in BagToSet(plateCalls) :
              Plate_catch(call)
                  => /\ UNCHANGED <<cartVars, Menu_selections>>
                     /\ plateCalls' = plateCalls (-) OneCall(call)
        /\ \A call \in BagToSet(alaCalls) :
              ALa_selectSizeCatch(call)
                  => /\ UNCHANGED <<cartVars, Menu_selections>>
                     /\ alaCalls' = alaCalls (-) OneCall(call) ]_vars

\* the Plate menu with its selection on screen and the cart empty, the
\* food id lookups of an addToCart having failed
PlateLookupFailed ==
    /\ PlateMounted
    /\ plateSelectedSide # Null
    /\ Len(plateSelectedEntrees) = 2
    /\ cartItems = <<>> /\ transactionCart = <<>>
    /\ \E call \in BagToSet(plateCalls) : call.stage = "failing"

\* C22: in the step that makes isOrderComplete true, the service holds the
\* transactionitems line of every entry of transactionCart, none of their
\* posts is still in flight, and the decrements of every line have been
\* sent.
CompleteAfterAllLines ==
    [][ (~isOrderComplete /\ isOrderComplete')
            => /\ \A i \in 1..Len(transactionCart) :
                      BagIn(<<transactionId>> \o transactionCart[i],
                            srvLineItems')
               /\ Order_callsAt(orderCalls', "transactionitems") = {}
      ]_vars

\* C23: every line the service holds is six slots long and starts with the
\* transactionID of a transaction the service has taken from this session.
LineItemCarriesTransactionID ==
    \A item \in BagToSet(srvLineItems) :
        /\ Len(item) = 6
        /\ \E k \in (Len(EarlierTransactions) + 1)..Len(srvTransactions) :
               srvTransactions[k].transactionID = item[1]

\* how many of the slots food1..food4 of a line item hold food
Line_slotsHolding(item, food) ==
    Cardinality({k \in 3..6 : item[k] = food})

\* how many more copies of a call are in flight after the step
Order_sent(call) == CopiesIn(call, orderCalls') - CopiesIn(call, orderCalls)

FoodIDs == {FoodTable[name] : name \in DOMAIN FoodTable}
ItemIDs == {ItemTable[name] : name \in DOMAIN ItemTable}

\* C24: the answer to the transaction post sends, for each line, one item
\* type decrement with the line's slot 0 and no other; the answer to a
\* line's transactionitems post sends, for each food id, as many food
\* decrements as slots food1..food4 of the line hold it; no decrement for
\* food 0 is ever in flight or applied; and when every call of the run has
\* succeeded, the service has applied exactly those decrements.
DecrementsPerLine ==
    /\ [](/\ \A call \in BagToSet(orderCalls) :
                 call.stage = "food" => call.foodid # 0
          /\ ~BagIn(0, srvFoodDecrements)
          /\ (/\ orderCalls = EmptyBag
              /\ BagCardinality(srvLineItems) = Len(transactionCart)
              /\ BagCardinality(srvItemTypeDecrements)
                     = Len(transactionCart)
              /\ BagCardinality(srvFoodDecrements)
                     >= Cardinality({<<i, k>> \in
                            (1..Len(transactionCart)) \X (2..5) :
                                transactionCart[i][k] # 0}))
             => /\ \A id \in ItemIDs :
                       CopiesIn(id, srvItemTypeDecrements)
                           = Cardinality({i \in 1..Len(transactionCart) :
                                 transactionCart[i][1] = id})
                /\ \A food \in FoodIDs :
                       CopiesIn(food, srvFoodDecrements)
                           = Cardinality({<<i, k>> \in
                                 (1..Len(transactionCart)) \X (2..5) :
                                     transactionCart[i][k] = food}))
    /\ [][ /\ \A call \in BagToSet(orderCalls) :
                 completeOrder_transactionThen(call)
                     => \A i \in 1..Len(transactionCart) :
                            \A id \in ItemIDs :
                                Order_sent([stage |-> "itemtype",
                                            line |-> i - 1, itemid |-> id])
                                    = IF id = transactionCart[i][1]
                                      THEN 1 ELSE 0
          /\ \A call \in BagToSet(orderCalls) :
                 completeOrder_transactionitemsThen(call)
                     => \A food \in FoodIDs \cup {0} :
                            Order_sent([stage |-> "food", line |-> call.line,
                                        foodid |-> food])
                                = IF food = 0 THEN 0
                                  ELSE Line_slotsHolding(call.item, food)
        ]_vars

\* a Plate line's run is over and every call of it has succeeded
PlateDecremented ==
    /\ Len(transactionCart) = 1
    /\ Len(Order_foodids(<<transactionId>> \o transactionCart[1])) = 3
    /\ orderCalls = EmptyBag
    /\ BagCardinality(srvLineItems) = 1
    /\ BagCardinality(srvItemTypeDecrements) = 1
    /\ BagCardinality(srvFoodDecrements) = 3

\* C25: when the latest id read answers, the transactionId kept for the
\* transaction and its line items is the id read plus one, and the
\* transaction posted in that step carries it.
NextTransactionID ==
    [][ \A call \in BagToSet(orderCalls) :
            completeOrder_latestIDThen(call)
                => /\ transactionId' = LatestID(srvTransactions) + 1
                   /\ \A sent \in Order_callsAt(orderCalls', "transaction") :
                          Order_sent(sent) > 0
                              => sent.transactionID
                                     = LatestID(srvTransactions) + 1
      ]_vars

\* C26: a selection operation never takes an item that is out of stock, and
\* when addToCart of Appetizers or Plate or selectSize of A la carte is run,
\* no item of the selection it puts into a line is out of stock.
StockedAtAdd ==
    [][ /\ \A a \in Appetizers :
               toggleAppetizer(a) => ~App_isOutOfStock(a)
        /\ \A side \in Sides :
               selectSide(side) => ~Plate_isOutOfStock(side, "Side")
        /\ \A entree \in Entrees :
               selectEntree(entree) => ~Plate_isOutOfStock(entree, "Entree")
        /\ \A side \in ALa_sides :
               toggleSides(side) => ~ALa_isOutOfStock(side, "Side")
        /\ \A entree \in ALa_entrees :
               toggleEntrees(entree) => ~ALa_isOutOfStock(entree, "Entree")
        /\ App_addToCart
               => \A k \in 1..Len(selectedAppetizers) :
                      ~App_isOutOfStock(selectedAppetizers[k])
        /\ Plate_addToCart
               => /\ ~Plate_isOutOfStock(plateSelectedSide, "Side")
                  /\ \A k \in 1..Len(plateSelectedEntrees) :
                         ~Plate_isOutOfStock(plateSelectedEntrees[k],
                                             "Entree")
        /\ \A k \in 1..3 :
               selectSize(k)
                   => ~ALa_isOutOfStock(currentItem,
                          IF currentItemType = "side" THEN "Side"
                          ELSE "Entree")
      ]_vars

\* arr is the beginning of newArr
Cart_keptInFront(arr, newArr) ==
    /\ Len(arr) <= Len(newArr)
    /\ \A k \in 1..Len(arr) : newArr[k] = arr[k]

\* newArr is arr without the element at the 0-based index
Cart_without(arr, index, newArr) ==
    /\ Len(newArr) = Len(arr) - 1
    /\ \A k \in 1..Len(newArr) :
           newArr[k] = IF k <= index THEN arr[k] ELSE arr[k + 1]

\* C27: in every step the lines of cartItems and the entries of
\* transactionCart stay as they are, in place, with lines added behind them
\* at most; or the step is removeFromCart(index) and exactly the line and
\* the entry at index go; or the step is clearOrder or resetOrder and both
\* arrays are emptied.
LinesFrozen ==
    [][ \/ /\ Cart_keptInFront(cartItems, cartItems')
           /\ Cart_keptInFront(transactionCart, transactionCart')
        \/ \E index \in 0..(Len(cartItems) - 1) :
               /\ removeFromCart(index)
               /\ Cart_without(cartItems, index, cartItems')
               /\ index < Len(transactionCart)
                      => Cart_without(transactionCart, index,
                                      transactionCart')
               /\ index >= Len(transactionCart)
                      => transactionCart' = transactionCart
        \/ /\ clearOrder \/ resetOrder
           /\ cartItems' = <<>>
           /\ transactionCart' = <<>>
      ]_vars

\* a line added at a later price stands behind a line kept at its price
\* through a visit of the checkout page
RepricedBehindKept ==
    /\ MenuShown
    /\ selectedPayment # NoPayment
    /\ Len(cartItems) = 2
    /\ cartItems[1] \in CartLife_lines
    /\ cartItems[2] \in CartLife_repriced
    /\ cartItems[2].name = cartItems[1].name

\* C28: the step that starts a new order from the order complete screen
\* leaves cartItems and transactionCart empty, transactionId null and
\* readyTime empty.
NewOrderStartsEmpty ==
    [][ resetOrder
            => /\ OrderCompleteShown
               /\ cartItems' = <<>>
               /\ transactionCart' = <<>>
               /\ transactionId' = NoTransactionId
               /\ readyTime' = NoReadyTime
      ]_vars

\* the menu of a new order after an order whose line the service holds
NewOrderAfterComplete ==
    /\ MenuShown
    /\ srvLineItems # EmptyBag
    /\ cartItems = <<>>
    /\ transactionCart = <<>>
    /\ transactionId = NoTransactionId
    /\ readyTime = NoReadyTime

\* C29: when resetContent on the checkout page or cancelUserInfo on the
\* user info form takes the session back to the menu, cartItems and
\* transactionCart are empty after the step.
CancelEmptiesCart ==
    [][ ((resetContent \/ cancelUserInfo) /\ MenuShown')
            => /\ cartItems' = <<>>
               /\ transactionCart' = <<>>
      ]_vars

\* C30: whenever a request of completeOrder fails (the latest id read, the
\* transaction post, a transactionitems post, an item type decrement or a
\* food decrement), an alert is on screen after the step.
FailureSurfaced ==
    [][ \A call \in BagToSet(orderCalls) :
            (\/ completeOrder_latestIDCatch(call)
             \/ completeOrder_transactionCatch(call)
             \/ completeOrder_transactionitemsCatch(call)
             \/ completeOrder_itemtypeFail(call)
             \/ completeOrder_foodFail(call))
                => orderAlert' # NoAlert
      ]_vars

\* C31: once completeOrder has been run with a payment method selected
\* and a line in the cart, and every request is answered with success, the
\* order complete screen is reached with readyTime set.
EventuallyComplete ==
    (/\ Order_callsAt(orderCalls, "latestID") # {}
     /\ selectedPayment # NoPayment
     /\ cartItems # <<>>)
        ~> (isOrderComplete /\ readyTime # NoReadyTime)

\* C32: while the order complete screen is shown transactionId is not null,
\* and the screen is only ever reached from the user info form of the order
\* being submitted, never from the menu or the checkout page a cancel or a
\* new order has gone to.
CompleteIsCurrentOrder ==
    /\ [](isOrderComplete => transactionId # NoTransactionId)
    /\ [][ (~isOrderComplete /\ isOrderComplete') => UserInfoShown ]_vars

\* the state of the session the three flags stand for, if any
Session_state(checkout, userInfo, complete) ==
    CASE ~checkout /\ ~userInfo /\ ~complete -> "Building"
      [] checkout /\ ~userInfo /\ ~complete -> "AwaitingPayment"
      [] ~checkout /\ userInfo /\ ~complete -> "AwaitingCustomerInfo"
      [] ~checkout /\ ~userInfo /\ complete -> "Complete"
      [] OTHER -> "none"

Session_moves ==
    { <<"Building", "AwaitingPayment">>,
      <<"AwaitingPayment", "AwaitingCustomerInfo">>,
      <<"AwaitingCustomerInfo", "Complete">>,
      <<"AwaitingPayment", "Building">>,
      <<"AwaitingCustomerInfo", "Building">>,
      <<"Complete", "Building">> }

\* C33: isCheckoutVisible, showUserInfo and isOrderComplete are never true
\* two at a time, and a step that changes them is one of the moves Building
\* to AwaitingPayment to AwaitingCustomerInfo to Complete, a cancellation
\* back to Building, or Complete to Building.
OneStateAtATime ==
    /\ [](Session_state(isCheckoutVisible, showUserInfo, isOrderComplete)
              # "none")
    /\ [][ flowVars' # flowVars
              => <<Session_state(isCheckoutVisible, showUserInfo,
                                 isOrderComplete),
                   Session_state(isCheckoutVisible', showUserInfo',
                                 isOrderComplete')>> \in Session_moves
        ]_vars

\* C34: after resetOrder selectedPayment is empty and cartTotal is 0.
ResetOrderResetsAll ==
    [][ resetOrder => (selectedPayment' = NoPayment /\ cartTotal' = 0) ]_vars

\* the entry is the one selectSize writes for the item, in some size
ALa_entryOf(entry, type, item) ==
    \E k \in 1..Len(sizeOptions[type]) :
        entry.name = ALa_name(type, item, sizeOptions[type][k].name)

\* the entries of the list that stand for the item
ALa_entriesOf(list, type, item) ==
    {k \in 1..Len(list) : ALa_entryOf(list[k], type, item)}

\* C35: selectedSides and selectedEntrees hold at most one entry for each
\* item of the menu, and the step that writes the entry of the item the
\* size was chosen for leaves the entry of every other item as it was.
OneEntryPerItem ==
    /\ [](/\ \A side \in ALa_nestedSides :
                 Cardinality(ALa_entriesOf(alaSelectedSides, "side", side))
                     <= 1
          /\ \A entree \in ALa_entrees :
                 Cardinality(ALa_entriesOf(alaSelectedEntrees, "entree",
                                           entree)) <= 1)
    /\ [][ \A call \in BagToSet(alaCalls) :
              ALa_selectSizeResume(call)
                  => /\ \A k \in 1..Len(alaSelectedSides) :
                            ~ALa_entryOf(alaSelectedSides[k], "side",
                                         currentItem)
                                => alaSelectedSides'[k] = alaSelectedSides[k]
                     /\ \A k \in 1..Len(alaSelectedEntrees) :
                            ~ALa_entryOf(alaSelectedEntrees[k], "entree",
                                         currentItem)
                                => alaSelectedEntrees'[k]
                                       = alaSelectedEntrees[k]
        ]_vars

\* every entry the step has written into the list names the item the food
\* id was asked for, holds that food id and the size clicked, and at most
\* one entry has been added
ALa_writtenFor(list, newList, call) ==
    /\ Len(newList) <= Len(list) + 1
    /\ \A k \in 1..Len(newList) :
           (k > Len(list) \/ newList[k] # list[k])
               => /\ Includes(newList[k].name, call.itemName)
                  /\ newList[k].size = call.size.name
                  /\ newList[k].transactionEntry[2]
                         = GetFoodID(call.itemName)

\* C36: when selectSize goes on after the food id has arrived, what it
\* writes into selectedSides and selectedEntrees is at most one entry, with
\* the name of the item the size was clicked for, that item's food id and
\* the size clicked.
EntryPairsNameAndFood ==
    [][ \A call \in BagToSet(alaCalls) :
            ALa_selectSizeResume(call)
                => /\ ALa_writtenFor(alaSelectedSides, alaSelectedSides',
                                     call)
                   /\ ALa_writtenFor(alaSelectedEntrees, alaSelectedEntrees',
                                     call)
      ]_vars

\* C37: when the base item id of a Plate arrives, the food ids are asked
\* for the side and the two entrees the button was pressed on; when they
\* arrive, one line and one entry naming that side and those entrees are
\* added and the selection is emptied.
PlateAddsConfirmed ==
    [][ /\ \A call \in BagToSet(plateCalls) :
               Plate_itemidThen(call)
                   => \E sent \in BagToSet(plateCalls') :
                          /\ CopiesIn(sent, plateCalls')
                                 > CopiesIn(sent, plateCalls)
                          /\ sent.stage = "foodid"
                          /\ sent.sideName = call.sideName
                          /\ sent.entreeNames = call.entreeNames
        /\ \A call \in BagToSet(plateCalls) :
               Plate_foodidThen(call)
                   => /\ Len(cartItems') = Len(cartItems) + 1
                      /\ Len(transactionCart') = Len(transactionCart) + 1
                      /\ cartItems'[Len(cartItems')].name
                             = Plate_name(call.sideName, call.entreeNames)
                      /\ plateSelectedSide' = Null
                      /\ plateSelectedEntrees' = <<>>
      ]_vars

\* C38: whatever Math.random() returns, the minutes added to now are a
\* whole number from 5 to 10; readyTime is empty or now plus such a number
\* of minutes, and it is set while the order complete screen is shown.
ReadyTimeInRange ==
    /\ \A random \in Math_random :
           randomMinutes(random) \in 5..10
    /\ readyTime # NoReadyTime => readyTime \in 5..10
    /\ isOrderComplete => readyTime \in 5..10

\* the order is complete with the longest ready time
ReadyInTenMinutes ==
    /\ isOrderComplete
    /\ readyTime = 10
    /\ \E random \in Math_random : randomMinutes(random) = readyTime
====
